---- MODULE Spec2Model ----
(***************************************************************************)
(* The chess rules engine of lucasbravo00/Chess_game: the Board class      *)
(* (models/board.py), the piece move generators (models/piece.py) and the  *)
(* check / terminal helpers (utils/helpers.py).                            *)
(*                                                                         *)
(* Piece objects live in a heap `pieces` (id -> fields); the grid `board`  *)
(* holds ids, board[y][x], exactly as Board.board[y][x] holds references.  *)
(* The move generators read a piece's own stored x, y, as the code does.   *)
(***************************************************************************)
EXTENDS Integers, Sequences, FiniteSets, TLC

None == 0
(* An absent square: a None where the code expects an (x, y) pair. *)
NoSq == <<>>
COLOR_WHITE == "w"
COLOR_BLACK == "b"
DRAW == "draw"
NoWinner == "none"
Coord == 0..7

(* PIECE_VALUE of models/constants.py *)
PIECE_VALUE == [pawn |-> 1, knight |-> 3, bishop |-> 3, rook |-> 5, queen |-> 9, king |-> 0]

(* ANIMATION_DURATION of models/constants.py: frames between move_piece   *)
(* and _complete_move.                                                     *)
ANIMATION_DURATION == 15

(* Size of the piece heap: the 32 initial objects plus the objects that    *)
(* promote_pawn and undo_move create while older ones are still referenced. *)
MaxObjects == 35

(* How many times the caller calls undo_move counting from the first call   *)
(* made between move_piece and the _complete_move of the same move: a game *)
(* in which a move in flight was undone is taken back no further.          *)
MaxUndoInFlight == 1

(* How many times the caller answers a pending promotion with a kind that  *)
(* promote_pawn rejects.                                                   *)
MaxRejectedPromotions == 1

Other(color) == IF color = COLOR_WHITE THEN COLOR_BLACK ELSE COLOR_WHITE

Abs(n) == IF n < 0 THEN -n ELSE n

InBoard(x, y) == 0 <= x /\ x < 8 /\ 0 <= y /\ y < 8

(* A heap slot that holds no live object. *)
Dead == [type |-> "dead", color |-> "-", x |-> 0, y |-> 0, moved |-> FALSE]

NewPiece(type, color, x, y) == [type |-> type, color |-> color, x |-> x, y |-> y, moved |-> FALSE]

(***************************************************************************)
(* models/piece.py: pseudo-legal move generation                           *)
(***************************************************************************)
RookDirs == {<<0, 1>>, <<1, 0>>, <<0, -1>>, <<-1, 0>>}
BishopDirs == {<<1, 1>>, <<1, -1>>, <<-1, -1>>, <<-1, 1>>}
QueenDirs == RookDirs \cup BishopDirs
(* The knight's jumps with one of the eight offsets missing.               *)
KnightJumpsSevenOffsets == {<<1, 2>>, <<2, 1>>, <<2, -1>>, <<1, -2>>, <<-2, -1>>, <<-2, 1>>, <<-1, 2>>}

KnightJumps == {<<1, 2>>, <<2, 1>>, <<2, -1>>, <<1, -2>>, <<-1, -2>>, <<-2, -1>>, <<-2, 1>>, <<-1, 2>>}

(* The body of the `for i in range(1, 8)` loop of the sliding pieces.      *)
RECURSIVE Ray(_, _, _, _, _, _, _, _)
Ray(bd, ps, color, x, y, dx, dy, i) ==
    LET nx == x + i * dx
        ny == y + i * dy
    IN  IF i > 7 \/ ~InBoard(nx, ny) THEN {}
        ELSE IF bd[ny][nx] = None THEN {<<nx, ny>>} \cup Ray(bd, ps, color, x, y, dx, dy, i + 1)
        ELSE IF ps[bd[ny][nx]].color # color THEN {<<nx, ny>>}
        ELSE {}

SlidingMoves(bd, ps, p, dirs) ==
    UNION {Ray(bd, ps, ps[p].color, ps[p].x, ps[p].y, d[1], d[2], 1) : d \in dirs}

(* Knight.possible_moves, and the adjacent-square part of King.possible_moves *)
StepMoves(bd, ps, p, offsets) ==
    {<<ps[p].x + d[1], ps[p].y + d[2]>> : d \in
        {d \in offsets : /\ InBoard(ps[p].x + d[1], ps[p].y + d[2])
                         /\ \/ bd[ps[p].y + d[2]][ps[p].x + d[1]] = None
                            \/ ps[bd[ps[p].y + d[2]][ps[p].x + d[1]]].color # ps[p].color}}

(* Every caller hands the generators the grid (Board.board, a list of      *)
(* lists), never the Board object, so hasattr(board, 'board') and          *)
(* hasattr(current_board, 'last_pawn_moved') are False at every call.      *)
is_board_obj == FALSE

(* Pawn.possible_moves. `lpm` is board.last_pawn_moved, read only when the *)
(* argument is a Board object.                                             *)
PawnMoves(bd, ps, p, lpm) ==
    LET me == ps[p]
        direction == IF me.color = COLOR_WHITE THEN -1 ELSE 1
        one == IF InBoard(me.x, me.y + direction) /\ bd[me.y + direction][me.x] = None
               THEN {<<me.x, me.y + direction>>} ELSE {}
        two == IF /\ one # {}
                  /\ ~me.moved
                  /\ InBoard(me.x, me.y + 2 * direction)
                  /\ bd[me.y + 2 * direction][me.x] = None
               THEN {<<me.x, me.y + 2 * direction>>} ELSE {}
        caps == {<<me.x + dx, me.y + direction>> : dx \in
                    {dx \in {-1, 1} : /\ InBoard(me.x + dx, me.y + direction)
                                      /\ bd[me.y + direction][me.x + dx] # None
                                      /\ ps[bd[me.y + direction][me.x + dx]].color # me.color}}
        white_pawn_on_fifth == me.color = COLOR_WHITE /\ me.y = 3
        black_pawn_on_fourth == me.color = COLOR_BLACK /\ me.y = 4
        ep == IF /\ is_board_obj
                 /\ lpm # NoSq
                 /\ white_pawn_on_fifth \/ black_pawn_on_fourth
                 /\ (white_pawn_on_fifth /\ lpm[2] = 3) \/ (black_pawn_on_fourth /\ lpm[2] = 4)
                 /\ Abs(me.x - lpm[1]) = 1
                 /\ bd[lpm[2]][lpm[1]] # None
                 /\ ps[bd[lpm[2]][lpm[1]]].type = "pawn"
                 /\ ps[bd[lpm[2]][lpm[1]]].color # me.color
              THEN {<<lpm[1], me.y + direction>>} ELSE {}
    IN  one \cup two \cup caps \cup ep

(* possible_moves of every kind but the king; the king's is below because  *)
(* its castling part needs the attack oracle.                              *)
PieceMoves(bd, ps, p) ==
    CASE ps[p].type = "pawn" -> PawnMoves(bd, ps, p, NoSq)
      [] ps[p].type = "rook" -> SlidingMoves(bd, ps, p, RookDirs)
      [] ps[p].type = "knight" -> StepMoves(bd, ps, p, KnightJumps)
      [] ps[p].type = "bishop" -> SlidingMoves(bd, ps, p, BishopDirs)
      [] ps[p].type = "queen" -> SlidingMoves(bd, ps, p, QueenDirs)
      [] ps[p].type = "king" -> StepMoves(bd, ps, p, QueenDirs)
      [] OTHER -> {}

(***************************************************************************)
(* utils/helpers.py: attack and check oracle                               *)
(***************************************************************************)
(* The squares of the grid that hold a piece of a colour other than `color`. *)
EnemySquares(bd, ps, color) ==
    {s \in Coord \X Coord : bd[s[2]][s[1]] # None /\ ps[bd[s[2]][s[1]]].color # color}

(* The first square, in row-major order, holding `color`'s king; NoSq when *)
(* the scan finds none.                                                    *)
FindKing(bd, ps, color) ==
    LET ks == {s \in Coord \X Coord :
                  /\ bd[s[2]][s[1]] # None
                  /\ ps[bd[s[2]][s[1]]].type = "king"
                  /\ ps[bd[s[2]][s[1]]].color = color}
    IN  IF ks = {} THEN NoSq
        ELSE CHOOSE s \in ks : \A t \in ks : s[2] < t[2] \/ (s[2] = t[2] /\ s[1] <= t[1])

is_square_threatened(bd, ps, x, y, own_color) ==
    \E s \in EnemySquares(bd, ps, own_color) :
        IF ps[bd[s[2]][s[1]]].type = "king"
        THEN Abs(s[1] - x) <= 1 /\ Abs(s[2] - y) <= 1
        ELSE <<x, y>> \in PieceMoves(bd, ps, bd[s[2]][s[1]])

(* is_in_check with the king's position given.  An enemy king is tested by *)
(* adjacency and then by its possible_moves(check_castling=False).         *)
is_in_check_at(bd, ps, king_color, king_position) ==
    \E s \in EnemySquares(bd, ps, king_color) :
        \/ /\ ps[bd[s[2]][s[1]]].type = "king"
           /\ Abs(s[1] - king_position[1]) <= 1
           /\ Abs(s[2] - king_position[2]) <= 1
        \/ king_position \in PieceMoves(bd, ps, bd[s[2]][s[1]])

(* is_in_check that passes over the enemy's pawns.                         *)
is_in_check_ignoring_pawns(bd, ps, king_color) ==
    \E s \in EnemySquares(bd, ps, king_color) :
        /\ ps[bd[s[2]][s[1]]].type # "pawn"
        /\ \/ /\ ps[bd[s[2]][s[1]]].type = "king"
              /\ Abs(s[1] - FindKing(bd, ps, king_color)[1]) <= 1
              /\ Abs(s[2] - FindKing(bd, ps, king_color)[2]) <= 1
           \/ FindKing(bd, ps, king_color) \in PieceMoves(bd, ps, bd[s[2]][s[1]])

(* is_in_check(board, king_color): the king is found by the scan.  Called  *)
(* only where FindKing finds one; a missing king makes the code raise.     *)
is_in_check(bd, ps, king_color) ==
    is_in_check_at(bd, ps, king_color, FindKing(bd, ps, king_color))

is_in_check_simple(bd, ps, king_color) ==
    LET k == FindKing(bd, ps, king_color)
        kx == k[1]
        ky == k[2]
        at(x, y) == ps[bd[y][x]]
        enemy(x, y, types) == /\ InBoard(x, y)
                              /\ bd[y][x] # None
                              /\ at(x, y).color # king_color
                              /\ at(x, y).type \in types
        pawn_dirs == IF king_color = COLOR_WHITE THEN {<<-1, -1>>, <<1, -1>>} ELSE {<<-1, 1>>, <<1, 1>>}
        (* first occupied square along a direction, NoSq when the ray leaves the board *)
        firstHit(dx, dy) ==
            LET is == {i \in 1..7 : InBoard(kx + i * dx, ky + i * dy) /\ bd[ky + i * dy][kx + i * dx] # None}
            IN  IF is = {} THEN NoSq
                ELSE LET i == CHOOSE i \in is : \A j \in is : i <= j
                     IN  <<kx + i * dx, ky + i * dy>>
        lineHit(dirs, types) ==
            \E d \in dirs : LET h == firstHit(d[1], d[2])
                            IN  h # NoSq /\ enemy(h[1], h[2], types)
    IN  \/ \E d \in pawn_dirs : enemy(kx + d[1], ky + d[2], {"pawn"})
        \/ \E d \in KnightJumps : enemy(kx + d[1], ky + d[2], {"knight"})
        \/ \E d \in QueenDirs : enemy(kx + d[1], ky + d[2], {"king"})
        \/ lineHit(RookDirs, {"rook", "queen"})
        \/ lineHit(BishopDirs, {"bishop", "queen"})

(* King._can_castle_kingside / _can_castle_queenside *)
can_castle_kingside(bd, ps, p) ==
    LET me == ps[p]
        rook == bd[me.y][7]
    IN  /\ rook # None
        /\ ps[rook].type = "rook"
        /\ ps[rook].color = me.color
        /\ ~ps[rook].moved
        /\ \A x \in (me.x + 1)..6 : bd[me.y][x] = None
        /\ \A x \in (me.x + 1)..(me.x + 2) : ~is_square_threatened(bd, ps, x, me.y, me.color)

can_castle_queenside(bd, ps, p) ==
    LET me == ps[p]
        rook == bd[me.y][0]
    IN  /\ rook # None
        /\ ps[rook].type = "rook"
        /\ ps[rook].color = me.color
        /\ ~ps[rook].moved
        /\ \A x \in 1..(me.x - 1) : bd[me.y][x] = None
        /\ \A x \in (me.x - 2)..(me.x - 1) : ~is_square_threatened(bd, ps, x, me.y, me.color)

(* King.possible_moves(board, check_castling=True) *)
KingMoves(bd, ps, p) ==
    LET me == ps[p]
        castle == IF ~me.moved /\ ~is_in_check_simple(bd, ps, me.color)
                  THEN (IF can_castle_kingside(bd, ps, p) THEN {<<me.x + 2, me.y>>} ELSE {})
                       \cup (IF can_castle_queenside(bd, ps, p) THEN {<<me.x - 2, me.y>>} ELSE {})
                  ELSE {}
    IN  StepMoves(bd, ps, p, QueenDirs) \cup castle

possible_moves(bd, ps, p) ==
    IF ps[p].type = "king" THEN KingMoves(bd, ps, p) ELSE PieceMoves(bd, ps, p)


(***************************************************************************)
(* utils/helpers.py: legality filter                                       *)
(***************************************************************************)
(* The legality filter left out: every pseudo-legal move passes.           *)
never_leaves_king_in_check(bd, ps, p, move) == FALSE

(* leaves_king_in_check(current_board, piece, move).  current_board is the *)
(* grid, so the en-passant branch (which needs current_board's             *)
(* last_pawn_moved attribute) never removes a captured pawn.               *)
leaves_king_in_check(bd, ps, p, move) ==
    LET me == ps[p]
        x_dest == move[1]
        y_dest == move[2]
        lpm == NoSq
        white_pawn_on_fifth == me.color = COLOR_WHITE /\ me.y = 3
        black_pawn_on_fourth == me.color = COLOR_BLACK /\ me.y = 4
        en_passant_capture ==
            /\ me.type = "pawn"
            /\ Abs(me.x - x_dest) = 1
            /\ bd[y_dest][x_dest] = None
            /\ (white_pawn_on_fifth /\ y_dest = 2) \/ (black_pawn_on_fourth /\ y_dest = 5)
            /\ is_board_obj
            /\ lpm # NoSq
            /\ x_dest = lpm[1]
            /\ (white_pawn_on_fifth /\ lpm[2] = 3) \/ (black_pawn_on_fourth /\ lpm[2] = 4)
        t1 == [bd EXCEPT ![me.y][me.x] = None]
        t2 == [t1 EXCEPT ![y_dest][x_dest] = p]
        temp_board == IF en_passant_capture THEN [t2 EXCEPT ![lpm[2]][lpm[1]] = None] ELSE t2
        found == FindKing(temp_board, ps, me.color)
        king == IF me.type = "king" THEN move ELSE found
    IN  IF king = NoSq THEN FALSE
        ELSE is_in_check_at(temp_board, ps, me.color, king)

(* Piece.valid_moves / King.valid_moves *)
valid_moves_of(bd, ps, p) ==
    {m \in possible_moves(bd, ps, p) : ~leaves_king_in_check(bd, ps, p, m)}

(* The squares holding a piece of `color`. *)
OwnSquares(bd, ps, color) ==
    {s \in Coord \X Coord : bd[s[2]][s[1]] # None /\ ps[bd[s[2]][s[1]]].color = color}

HasKing(bd, ps, color) == FindKing(bd, ps, color) # NoSq

is_checkmate(bd, ps, color) ==
    /\ is_in_check(bd, ps, color)
    /\ \A s \in OwnSquares(bd, ps, color) : valid_moves_of(bd, ps, bd[s[2]][s[1]]) = {}

is_stalemate(bd, ps, color) ==
    /\ ~is_in_check(bd, ps, color)
    /\ \A s \in OwnSquares(bd, ps, color) : valid_moves_of(bd, ps, bd[s[2]][s[1]]) = {}

(* insufficient_material without the test of the last piece's kind.       *)
insufficient_material_any_piece(bd, ps) ==
    Cardinality({s \in Coord \X Coord : bd[s[2]][s[1]] # None /\ ps[bd[s[2]][s[1]]].type # "king"}) <= 1

insufficient_material(bd, ps) ==
    LET non_king == {s \in Coord \X Coord : bd[s[2]][s[1]] # None /\ ps[bd[s[2]][s[1]]].type # "king"}
    IN  \/ Cardinality(non_king) = 0
        \/ /\ Cardinality(non_king) = 1
           /\ \A s \in non_king : ps[bd[s[2]][s[1]]].type \in {"bishop", "knight"}

(* get_board_signature: one token per square, color[0] + type[0] or ".",   *)
(* rows in order, then the side to move.  type[0] is "k" for the king and  *)
(* for the knight.                                                         *)
TypeInitial == [pawn |-> "p", knight |-> "k", bishop |-> "b", rook |-> "r", queen |-> "q", king |-> "k"]

Token(color, type) ==
    IF color = COLOR_WHITE
    THEN [p |-> "wp", k |-> "wk", b |-> "wb", r |-> "wr", q |-> "wq"][TypeInitial[type]]
    ELSE [p |-> "bp", k |-> "bk", b |-> "bb", r |-> "br", q |-> "bq"][TypeInitial[type]]

get_board_signature(bd, ps, turn) ==
    [rows |-> [y \in Coord |-> [x \in Coord |->
                 IF bd[y][x] = None THEN "." ELSE Token(ps[bd[y][x]].color, ps[bd[y][x]].type)]],
     turn |-> turn]

(* dict.get(signature, 0) *)
Count(rp, sig) == IF sig \in DOMAIN rp THEN rp[sig] ELSE 0


(***************************************************************************)
(* models/board.py: the Board object                                       *)
(***************************************************************************)
VARIABLES
    board,              \* Board.board[y][x]: id of the piece on the square, or None
    pieces,             \* the piece objects: id -> [type, color, x, y, moved]
    turn,               \* Board.turn
    selected_piece,     \* Board.selected_piece (id or None)
    valid_moves,        \* Board.valid_moves: the cached legal-move list of the selection
    history,            \* Board.history
    checkmate,          \* Board.checkmate: the terminal flag (set for draws too)
    winner,             \* Board.winner
    promotion_pending,  \* Board.promotion_pending
    pawn_to_promote,    \* Board.pawn_to_promote (id or None)
    repeated_positions, \* Board.repeated_positions: signature -> count
    last_pawn_moved,    \* Board.last_pawn_moved: (x, y) or NoSq
    animating,          \* Board.animating: a move has been accepted and not yet applied
    animation_time,     \* Board.animation_time
    move_data,          \* Board._move_data
    white_material,     \* Board.white_material
    crashed,            \* an exception left a handler: the program has stopped
    line,               \* the game the players follow (which squares they click)
    undone_in_flight,   \* undo_move calls since the first one made while a move was in flight
    rejected_promotions, \* how many promote_pawn calls named a kind that is no promotion
    controller          \* the GameController, its GameState and its ai_turn threads

vars == <<board, pieces, turn, selected_piece, valid_moves, history, checkmate, winner,
          promotion_pending, pawn_to_promote, repeated_positions, last_pawn_moved,
          animating, animation_time, move_data, white_material, crashed, line,
          undone_in_flight, rejected_promotions, controller>>

(* The Board's fields as one record, so that a handler is a function from  *)
(* the state before the call to the state after it.                        *)
St == [board |-> board, pieces |-> pieces, turn |-> turn, selected_piece |-> selected_piece,
       valid_moves |-> valid_moves, history |-> history, checkmate |-> checkmate,
       winner |-> winner, promotion_pending |-> promotion_pending,
       pawn_to_promote |-> pawn_to_promote, repeated_positions |-> repeated_positions,
       last_pawn_moved |-> last_pawn_moved, animating |-> animating,
       animation_time |-> animation_time, move_data |-> move_data,
       white_material |-> white_material, crashed |-> crashed, ret |-> FALSE]

NoSig == [rows |-> <<>>, turn |-> "-"]

NoMoveData == [piece |-> None, from_x |-> 0, from_y |-> 0, to_x |-> 0, to_y |-> 0,
               is_castling |-> FALSE, moved_rook |-> None, rook_from |-> NoSq, rook_to |-> NoSq,
               is_en_passant |-> FALSE, pawn_capture_pos |-> NoSq, last_pawn_temp |-> NoSq,
               current_color |-> "-"]

(* Board.initialize_board: ids 1..16 are White's objects, 17..32 Black's.  *)
BackRank == <<"rook", "knight", "bishop", "queen", "king", "bishop", "knight", "rook">>

InitialPieces ==
    [i \in 1..MaxObjects |->
        IF i <= 8 THEN NewPiece(BackRank[i], COLOR_WHITE, i - 1, 7)
        ELSE IF i <= 16 THEN NewPiece("pawn", COLOR_WHITE, i - 9, 6)
        ELSE IF i <= 24 THEN NewPiece(BackRank[i - 16], COLOR_BLACK, i - 17, 0)
        ELSE IF i <= 32 THEN NewPiece("pawn", COLOR_BLACK, i - 25, 1)
        ELSE Dead]

InitialBoard ==
    [y \in Coord |-> [x \in Coord |->
        CASE y = 7 -> x + 1
          [] y = 6 -> x + 9
          [] y = 0 -> x + 17
          [] y = 1 -> x + 25
          [] OTHER -> None]]

(* The objects something still refers to; every other heap slot is free.   *)
Live(s) ==
    {s.board[c[2]][c[1]] : c \in Coord \X Coord}
    \cup UNION {{s.history[i].piece, s.history[i].capture, s.history[i].rook,
                 s.history[i].pawn_captured} : i \in 1..Len(s.history)}
    \cup {s.selected_piece, s.pawn_to_promote, s.move_data.piece, s.move_data.moved_rook}

FreeIds(s) == {i \in 1..MaxObjects : s.pieces[i] = Dead}

Alloc(s) == CHOOSE i \in FreeIds(s) : \A j \in FreeIds(s) : i <= j

(* What the program can no longer read is dropped from the state: the     *)
(* objects nothing refers to and, once no move is in flight, _move_data    *)
(* (update_animation reads it only while animating, and move_piece writes  *)
(* it anew before setting animating).                                      *)
Collect(s) ==
    LET t == IF s.animating THEN s ELSE [s EXCEPT !.move_data = NoMoveData]
    IN  [t EXCEPT !.pieces = [i \in 1..MaxObjects |-> IF i \in Live(t) THEN t.pieces[i] ELSE Dead]]

(* What the call returns is kept in the record field `ret`.                 *)
Returned(s, ok) == [s EXCEPT !.ret = ok]

(* The en-passant move select_piece adds to the list, as a set.            *)
EnPassantAddition(bd, ps, lpm, p) ==
    LET me == ps[p]
        white_pawn_on_fifth == me.color = COLOR_WHITE /\ me.y = 3
        black_pawn_on_fourth == me.color = COLOR_BLACK /\ me.y = 4
        direction == IF me.color = COLOR_WHITE THEN -1 ELSE 1
    IN  IF /\ me.type = "pawn"
           /\ lpm # NoSq
           /\ white_pawn_on_fifth \/ black_pawn_on_fourth
           /\ (white_pawn_on_fifth /\ lpm[2] = 3) \/ (black_pawn_on_fourth /\ lpm[2] = 4)
           /\ Abs(me.x - lpm[1]) = 1
           /\ bd[lpm[2]][lpm[1]] # None
           /\ ps[bd[lpm[2]][lpm[1]]].type = "pawn"
           /\ ps[bd[lpm[2]][lpm[1]]].color # me.color
           /\ ~leaves_king_in_check(bd, ps, p, <<lpm[1], me.y + direction>>)
        THEN {<<lpm[1], me.y + direction>>}
        ELSE {}

(* The legal-move list select_piece caches for piece p.                    *)
LegalMoves(bd, ps, lpm, p) ==
    valid_moves_of(bd, ps, p) \cup EnPassantAddition(bd, ps, lpm, p)

(* select_piece without the test of the piece's colour against the turn.   *)
select_piece_of_either_side(s, x, y) ==
    IF s.checkmate \/ s.promotion_pending THEN Returned(s, FALSE)
    ELSE LET piece == s.board[y][x]
         IN  IF piece # None
             THEN Returned([s EXCEPT !.selected_piece = piece,
                                     !.valid_moves = LegalMoves(s.board, s.pieces, s.last_pawn_moved, piece)],
                           TRUE)
             ELSE Returned(s, FALSE)

select_piece(s, x, y) ==
    IF s.checkmate \/ s.promotion_pending THEN Returned(s, FALSE)
    ELSE LET piece == s.board[y][x]
         IN  IF piece # None /\ s.pieces[piece].color = s.turn
             THEN Returned([s EXCEPT !.selected_piece = piece,
                                     !.valid_moves = LegalMoves(s.board, s.pieces, s.last_pawn_moved, piece)],
                           TRUE)
             ELSE Returned(s, FALSE)

(* move_piece without the test of the target against the cached list.     *)
move_piece_to_any_square(s, x, y) ==
    IF s.checkmate \/ s.promotion_pending \/ s.animating THEN Returned(s, FALSE)
    ELSE IF s.selected_piece # None
    THEN LET piece == s.selected_piece
             me == s.pieces[piece]
             start_x == me.x
             start_y == me.y
             current_color == s.turn
             castling == me.type = "king" /\ Abs(x - start_x) = 2
             rook_x == IF x > start_x THEN 7 ELSE 0
             rook_new_x == IF x > start_x THEN x - 1 ELSE x + 1
             moved_rook == IF castling THEN s.board[start_y][rook_x] ELSE None
             rook_from == IF castling THEN <<rook_x, start_y>> ELSE NoSq
             rook_to == IF castling THEN <<rook_new_x, start_y>> ELSE NoSq
             lpm == s.last_pawn_moved
             white_pawn_on_fifth == me.color = COLOR_WHITE /\ start_y = 3
             black_pawn_on_fourth == me.color = COLOR_BLACK /\ start_y = 4
             en_passant ==
                 /\ me.type = "pawn"
                 /\ Abs(x - start_x) = 1
                 /\ s.board[y][x] = None
                 /\ lpm # NoSq
                 /\ white_pawn_on_fifth \/ black_pawn_on_fourth
                 /\ x = lpm[1]
                 /\ (white_pawn_on_fifth /\ lpm[2] = 3) \/ (black_pawn_on_fourth /\ lpm[2] = 4)
                 /\ s.board[lpm[2]][lpm[1]] # None
                 /\ s.pieces[s.board[lpm[2]][lpm[1]]].type = "pawn"
                 /\ s.pieces[s.board[lpm[2]][lpm[1]]].color # me.color
             history_entry ==
                 [piece |-> piece, from |-> <<start_x, start_y>>, to |-> <<x, y>>,
                  capture |-> s.board[y][x], moved |-> me.moved,
                  castling |-> castling, rook |-> moved_rook,
                  rook_from |-> rook_from, rook_to |-> rook_to,
                  en_passant |-> en_passant,
                  pawn_captured |-> IF en_passant THEN s.board[lpm[2]][lpm[1]] ELSE None,
                  pawn_capture_pos |-> IF en_passant THEN lpm ELSE NoSq,
                  promotion |-> "none", has_signature |-> FALSE, signature |-> NoSig]
             last_pawn_temp == IF me.type = "pawn" /\ Abs(start_y - y) = 2 THEN <<x, y>> ELSE NoSq
         IN  Returned([s EXCEPT !.history = Append(@, history_entry),
                                !.animating = TRUE,
                                !.animation_time = 0,
                                !.move_data =
                                    [piece |-> piece, from_x |-> start_x, from_y |-> start_y,
                                     to_x |-> x, to_y |-> y, is_castling |-> castling,
                                     moved_rook |-> moved_rook, rook_from |-> rook_from,
                                     rook_to |-> rook_to, is_en_passant |-> en_passant,
                                     pawn_capture_pos |-> IF en_passant THEN lpm ELSE NoSq,
                                     last_pawn_temp |-> last_pawn_temp,
                                     current_color |-> current_color]],
                      TRUE)
    ELSE Returned(s, FALSE)

move_piece(s, x, y) ==
    IF s.checkmate \/ s.promotion_pending \/ s.animating THEN Returned(s, FALSE)
    ELSE IF s.selected_piece # None /\ <<x, y>> \in s.valid_moves
    THEN LET piece == s.selected_piece
             me == s.pieces[piece]
             start_x == me.x
             start_y == me.y
             current_color == s.turn
             castling == me.type = "king" /\ Abs(x - start_x) = 2
             rook_x == IF x > start_x THEN 7 ELSE 0
             rook_new_x == IF x > start_x THEN x - 1 ELSE x + 1
             moved_rook == IF castling THEN s.board[start_y][rook_x] ELSE None
             rook_from == IF castling THEN <<rook_x, start_y>> ELSE NoSq
             rook_to == IF castling THEN <<rook_new_x, start_y>> ELSE NoSq
             lpm == s.last_pawn_moved
             white_pawn_on_fifth == me.color = COLOR_WHITE /\ start_y = 3
             black_pawn_on_fourth == me.color = COLOR_BLACK /\ start_y = 4
             en_passant ==
                 /\ me.type = "pawn"
                 /\ Abs(x - start_x) = 1
                 /\ s.board[y][x] = None
                 /\ lpm # NoSq
                 /\ white_pawn_on_fifth \/ black_pawn_on_fourth
                 /\ x = lpm[1]
                 /\ (white_pawn_on_fifth /\ lpm[2] = 3) \/ (black_pawn_on_fourth /\ lpm[2] = 4)
                 /\ s.board[lpm[2]][lpm[1]] # None
                 /\ s.pieces[s.board[lpm[2]][lpm[1]]].type = "pawn"
                 /\ s.pieces[s.board[lpm[2]][lpm[1]]].color # me.color
             history_entry ==
                 [piece |-> piece, from |-> <<start_x, start_y>>, to |-> <<x, y>>,
                  capture |-> s.board[y][x], moved |-> me.moved,
                  castling |-> castling, rook |-> moved_rook,
                  rook_from |-> rook_from, rook_to |-> rook_to,
                  en_passant |-> en_passant,
                  pawn_captured |-> IF en_passant THEN s.board[lpm[2]][lpm[1]] ELSE None,
                  pawn_capture_pos |-> IF en_passant THEN lpm ELSE NoSq,
                  promotion |-> "none", has_signature |-> FALSE, signature |-> NoSig]
             last_pawn_temp == IF me.type = "pawn" /\ Abs(start_y - y) = 2 THEN <<x, y>> ELSE NoSq
         IN  Returned([s EXCEPT !.history = Append(@, history_entry),
                                !.animating = TRUE,
                                !.animation_time = 0,
                                !.move_data =
                                    [piece |-> piece, from_x |-> start_x, from_y |-> start_y,
                                     to_x |-> x, to_y |-> y, is_castling |-> castling,
                                     moved_rook |-> moved_rook, rook_from |-> rook_from,
                                     rook_to |-> rook_to, is_en_passant |-> en_passant,
                                     pawn_capture_pos |-> IF en_passant THEN lpm ELSE NoSq,
                                     last_pawn_temp |-> last_pawn_temp,
                                     current_color |-> current_color]],
                      TRUE)
    ELSE Returned(s, FALSE)


(* TerminalResult with the winner of a checkmate taken to be the side to   *)
(* move instead of the side that moved.                                    *)
TerminalResultWinnerToMove(bd, ps, color, count, before) ==
    IF is_checkmate(bd, ps, color) THEN <<TRUE, color>>
    ELSE IF count >= 3 THEN <<TRUE, DRAW>>
    ELSE IF is_stalemate(bd, ps, color) THEN <<TRUE, DRAW>>
    ELSE IF insufficient_material(bd, ps) THEN <<TRUE, DRAW>>
    ELSE before

(* The terminal tests at the end of _complete_move, in the code's order:   *)
(* the (checkmate, winner) pair they leave, given the pair before them.    *)
TerminalResult(bd, ps, color, count, before) ==
    IF is_checkmate(bd, ps, color) THEN <<TRUE, Other(color)>>
    ELSE IF count >= 3 THEN <<TRUE, DRAW>>
    ELSE IF is_stalemate(bd, ps, color) THEN <<TRUE, DRAW>>
    ELSE IF insufficient_material(bd, ps) THEN <<TRUE, DRAW>>
    ELSE before

(* Piece.move *)
Moved(ps, p, x, y) == [ps EXCEPT ![p].x = x, ![p].y = y, ![p].moved = TRUE]

Credit(color, material, value) ==
    IF color = COLOR_WHITE THEN material + value ELSE material - value

complete_move(s) ==
    LET data == s.move_data
        piece == data.piece
        me == s.pieces[piece]
        x == data.to_x
        y == data.to_y
        captured_piece == s.board[y][x]
        material1 == IF captured_piece # None
                     THEN Credit(me.color, s.white_material, PIECE_VALUE[s.pieces[captured_piece].type])
                     ELSE s.white_material
        board1 == [[s.board EXCEPT ![data.from_y][data.from_x] = None] EXCEPT ![y][x] = piece]
        pieces1 == Moved(s.pieces, piece, x, y)
        board2 == IF data.is_castling
                  THEN [[board1 EXCEPT ![data.rook_from[2]][data.rook_from[1]] = None]
                           EXCEPT ![data.rook_to[2]][data.rook_to[1]] = data.moved_rook]
                  ELSE board1
        pieces2 == IF data.is_castling
                   THEN Moved(pieces1, data.moved_rook, data.rook_to[1], data.rook_to[2])
                   ELSE pieces1
        material2 == IF data.is_en_passant
                     THEN Credit(me.color, material1, PIECE_VALUE["pawn"])
                     ELSE material1
        board3 == IF data.is_en_passant
                  THEN [board2 EXCEPT ![data.pawn_capture_pos[2]][data.pawn_capture_pos[1]] = None]
                  ELSE board2
        applied == [s EXCEPT !.board = board3, !.pieces = pieces2, !.white_material = material2]
        new_turn == Other(s.turn)
        lpm == s.last_pawn_moved
        cleared == IF /\ lpm # NoSq
                      /\ board3[lpm[2]][lpm[1]] # None
                      /\ pieces2[board3[lpm[2]][lpm[1]]].color = data.current_color
                   THEN NoSq ELSE lpm
        new_lpm == IF data.last_pawn_temp # NoSq THEN data.last_pawn_temp ELSE cleared
        signature == get_board_signature(board3, pieces2, new_turn)
        new_rp == [k \in DOMAIN s.repeated_positions \cup {signature} |->
                      IF k = signature THEN Count(s.repeated_positions, signature) + 1
                      ELSE s.repeated_positions[k]]
        new_history == IF Len(s.history) > 0
                       THEN [s.history EXCEPT ![Len(s.history)].has_signature = TRUE,
                                              ![Len(s.history)].signature = signature]
                       ELSE s.history
        switched == [applied EXCEPT !.turn = new_turn, !.last_pawn_moved = new_lpm,
                                    !.repeated_positions = new_rp, !.history = new_history]
        result == TerminalResult(board3, pieces2, new_turn, new_rp[signature],
                                 <<s.checkmate, s.winner>>)
    IN  IF me.type = "pawn" /\ (y = 0 \/ y = 7)
        THEN [applied EXCEPT !.promotion_pending = TRUE, !.pawn_to_promote = piece,
                             !.selected_piece = None, !.valid_moves = {},
                             !.last_pawn_moved = data.last_pawn_temp, !.animating = FALSE]
        ELSE IF ~HasKing(board3, pieces2, new_turn)
        THEN (* is_checkmate -> is_in_check unpacks a None king position: TypeError *)
             [switched EXCEPT !.crashed = TRUE]
        ELSE [switched EXCEPT !.checkmate = result[1], !.winner = result[2],
                              !.selected_piece = None, !.valid_moves = {},
                              !.animating = FALSE]

update_animation(s) ==
    IF ~s.animating THEN s
    ELSE LET t == [s EXCEPT !.animation_time = @ + 1]
         IN  IF t.animation_time >= ANIMATION_DURATION THEN complete_move(t) ELSE t

PromotionKinds == {"queen", "rook", "bishop", "knight"}

(* promote_pawn running the whole terminal battery of _complete_move       *)
(* instead of the checkmate test alone.                                    *)
promote_pawn_with_terminal_battery(s, piece_type) ==
    IF ~s.promotion_pending \/ s.pawn_to_promote = None THEN Returned(s, FALSE)
    ELSE LET pawn == s.pieces[s.pawn_to_promote]
             value_diff == PIECE_VALUE[piece_type] - PIECE_VALUE["pawn"]
             credited == [s EXCEPT !.white_material = Credit(pawn.color, @, value_diff)]
             new_piece == Alloc(s)
             new_history == IF Len(s.history) > 0
                            THEN [s.history EXCEPT ![Len(s.history)].promotion = piece_type]
                            ELSE s.history
             new_turn == Other(s.turn)
             placed == [credited EXCEPT !.pieces[new_piece] = NewPiece(piece_type, pawn.color, pawn.x, pawn.y),
                                        !.board[pawn.y][pawn.x] = new_piece,
                                        !.history = new_history,
                                        !.promotion_pending = FALSE,
                                        !.pawn_to_promote = None,
                                        !.turn = new_turn]
             result == TerminalResult(placed.board, placed.pieces, new_turn, 0,
                                      <<placed.checkmate, placed.winner>>)
         IN  IF piece_type \notin PromotionKinds THEN Returned(credited, FALSE)
             ELSE IF ~HasKing(placed.board, placed.pieces, new_turn)
             THEN [placed EXCEPT !.crashed = TRUE]
             ELSE Returned([placed EXCEPT !.checkmate = result[1], !.winner = result[2]], TRUE)

promote_pawn(s, piece_type) ==
    IF ~s.promotion_pending \/ s.pawn_to_promote = None THEN Returned(s, FALSE)
    ELSE LET pawn == s.pieces[s.pawn_to_promote]
             value_diff == PIECE_VALUE[piece_type] - PIECE_VALUE["pawn"]
             credited == [s EXCEPT !.white_material = Credit(pawn.color, @, value_diff)]
             new_piece == Alloc(s)
             new_history == IF Len(s.history) > 0
                            THEN [s.history EXCEPT ![Len(s.history)].promotion = piece_type]
                            ELSE s.history
             new_turn == Other(s.turn)
             placed == [credited EXCEPT !.pieces[new_piece] = NewPiece(piece_type, pawn.color, pawn.x, pawn.y),
                                        !.board[pawn.y][pawn.x] = new_piece,
                                        !.history = new_history,
                                        !.promotion_pending = FALSE,
                                        !.pawn_to_promote = None,
                                        !.turn = new_turn]
         IN  IF piece_type \notin PromotionKinds THEN Returned(credited, FALSE)
             ELSE IF ~HasKing(placed.board, placed.pieces, new_turn)
             THEN [placed EXCEPT !.crashed = TRUE]
             ELSE IF is_checkmate(placed.board, placed.pieces, new_turn)
             THEN Returned([placed EXCEPT !.checkmate = TRUE, !.winner = Other(new_turn)],
                           TRUE)
             ELSE Returned(placed, TRUE)

(* undo_move leaving the castled rook's moved flag set.                    *)
undo_move_leaving_rook_moved(s) ==
    IF Len(s.history) = 0 THEN Returned(s, FALSE)
    ELSE LET last_move == s.history[Len(s.history)]
             popped == SubSeq(s.history, 1, Len(s.history) - 1)
             old_piece == last_move.piece
             color == s.pieces[old_piece].color
             start_x == last_move.from[1]
             start_y == last_move.from[2]
             end_x == last_move.to[1]
             end_y == last_move.to[2]
             capture == last_move.capture
             promoted == last_move.promotion # "none"
             material1 == IF capture # None
                          THEN Credit(color, s.white_material, -PIECE_VALUE[s.pieces[capture].type])
                          ELSE s.white_material
             material2 == IF promoted
                          THEN Credit(color, material1,
                                      -(PIECE_VALUE[last_move.promotion] - PIECE_VALUE["pawn"]))
                          ELSE material1
             (* a promotion is reverted with a new Pawn object *)
             piece == IF promoted THEN Alloc(s) ELSE old_piece
             pieces0 == IF promoted
                        THEN [s.pieces EXCEPT ![piece] = NewPiece("pawn", color, start_x, start_y)]
                        ELSE s.pieces
             board1 == [[s.board EXCEPT ![start_y][start_x] = piece] EXCEPT ![end_y][end_x] = capture]
             pieces1 == [pieces0 EXCEPT ![piece].x = start_x, ![piece].y = start_y,
                                        ![piece].moved = last_move.moved]
             board2 == IF last_move.castling
                       THEN [[board1 EXCEPT ![last_move.rook_to[2]][last_move.rook_to[1]] = None]
                                EXCEPT ![last_move.rook_from[2]][last_move.rook_from[1]] = last_move.rook]
                       ELSE board1
             pieces2 == IF last_move.castling
                        THEN [pieces1 EXCEPT ![last_move.rook].x = last_move.rook_from[1],
                                             ![last_move.rook].y = last_move.rook_from[2],
                                             ![last_move.rook].moved = TRUE]
                        ELSE pieces1
             material3 == IF last_move.en_passant
                          THEN Credit(color, material2, -PIECE_VALUE["pawn"])
                          ELSE material2
             board3 == IF last_move.en_passant
                       THEN [board2 EXCEPT ![last_move.pawn_capture_pos[2]][last_move.pawn_capture_pos[1]]
                                               = last_move.pawn_captured]
                       ELSE board2
             signature == last_move.signature
             rp == s.repeated_positions
             new_rp == IF last_move.has_signature /\ signature \in DOMAIN rp
                       THEN IF rp[signature] - 1 <= 0
                            THEN [k \in DOMAIN rp \ {signature} |-> rp[k]]
                            ELSE [rp EXCEPT ![signature] = @ - 1]
                       ELSE rp
             new_lpm == IF Len(popped) > 0
                        THEN LET prev_move == popped[Len(popped)]
                             IN  IF /\ s.pieces[prev_move.piece].type = "pawn"
                                    /\ Abs(prev_move.from[2] - prev_move.to[2]) = 2
                                 THEN prev_move.to ELSE NoSq
                        ELSE NoSq
         IN  Returned([s EXCEPT !.history = popped,
                                !.board = board3,
                                !.pieces = pieces2,
                                !.white_material = material3,
                                !.turn = Other(s.turn),
                                !.repeated_positions = new_rp,
                                !.checkmate = FALSE,
                                !.winner = IF s.checkmate THEN NoWinner ELSE s.winner,
                                !.promotion_pending = FALSE,
                                !.pawn_to_promote = IF s.promotion_pending THEN None ELSE s.pawn_to_promote,
                                !.selected_piece = None,
                                !.valid_moves = {},
                                !.last_pawn_moved = new_lpm],
                      TRUE)

(* undo_move without reversing the promotion's material delta.             *)
undo_move_keeping_promotion_material(s) ==
    IF Len(s.history) = 0 THEN Returned(s, FALSE)
    ELSE LET last_move == s.history[Len(s.history)]
             popped == SubSeq(s.history, 1, Len(s.history) - 1)
             old_piece == last_move.piece
             color == s.pieces[old_piece].color
             start_x == last_move.from[1]
             start_y == last_move.from[2]
             end_x == last_move.to[1]
             end_y == last_move.to[2]
             capture == last_move.capture
             promoted == last_move.promotion # "none"
             material1 == IF capture # None
                          THEN Credit(color, s.white_material, -PIECE_VALUE[s.pieces[capture].type])
                          ELSE s.white_material
             material2 == IF promoted
                          THEN material1
                          ELSE material1
             (* a promotion is reverted with a new Pawn object *)
             piece == IF promoted THEN Alloc(s) ELSE old_piece
             pieces0 == IF promoted
                        THEN [s.pieces EXCEPT ![piece] = NewPiece("pawn", color, start_x, start_y)]
                        ELSE s.pieces
             board1 == [[s.board EXCEPT ![start_y][start_x] = piece] EXCEPT ![end_y][end_x] = capture]
             pieces1 == [pieces0 EXCEPT ![piece].x = start_x, ![piece].y = start_y,
                                        ![piece].moved = last_move.moved]
             board2 == IF last_move.castling
                       THEN [[board1 EXCEPT ![last_move.rook_to[2]][last_move.rook_to[1]] = None]
                                EXCEPT ![last_move.rook_from[2]][last_move.rook_from[1]] = last_move.rook]
                       ELSE board1
             pieces2 == IF last_move.castling
                        THEN [pieces1 EXCEPT ![last_move.rook].x = last_move.rook_from[1],
                                             ![last_move.rook].y = last_move.rook_from[2],
                                             ![last_move.rook].moved = FALSE]
                        ELSE pieces1
             material3 == IF last_move.en_passant
                          THEN Credit(color, material2, -PIECE_VALUE["pawn"])
                          ELSE material2
             board3 == IF last_move.en_passant
                       THEN [board2 EXCEPT ![last_move.pawn_capture_pos[2]][last_move.pawn_capture_pos[1]]
                                               = last_move.pawn_captured]
                       ELSE board2
             signature == last_move.signature
             rp == s.repeated_positions
             new_rp == IF last_move.has_signature /\ signature \in DOMAIN rp
                       THEN IF rp[signature] - 1 <= 0
                            THEN [k \in DOMAIN rp \ {signature} |-> rp[k]]
                            ELSE [rp EXCEPT ![signature] = @ - 1]
                       ELSE rp
             new_lpm == IF Len(popped) > 0
                        THEN LET prev_move == popped[Len(popped)]
                             IN  IF /\ s.pieces[prev_move.piece].type = "pawn"
                                    /\ Abs(prev_move.from[2] - prev_move.to[2]) = 2
                                 THEN prev_move.to ELSE NoSq
                        ELSE NoSq
         IN  Returned([s EXCEPT !.history = popped,
                                !.board = board3,
                                !.pieces = pieces2,
                                !.white_material = material3,
                                !.turn = Other(s.turn),
                                !.repeated_positions = new_rp,
                                !.checkmate = FALSE,
                                !.winner = IF s.checkmate THEN NoWinner ELSE s.winner,
                                !.promotion_pending = FALSE,
                                !.pawn_to_promote = IF s.promotion_pending THEN None ELSE s.pawn_to_promote,
                                !.selected_piece = None,
                                !.valid_moves = {},
                                !.last_pawn_moved = new_lpm],
                      TRUE)

undo_move(s) ==
    IF Len(s.history) = 0 THEN Returned(s, FALSE)
    ELSE LET last_move == s.history[Len(s.history)]
             popped == SubSeq(s.history, 1, Len(s.history) - 1)
             old_piece == last_move.piece
             color == s.pieces[old_piece].color
             start_x == last_move.from[1]
             start_y == last_move.from[2]
             end_x == last_move.to[1]
             end_y == last_move.to[2]
             capture == last_move.capture
             promoted == last_move.promotion # "none"
             material1 == IF capture # None
                          THEN Credit(color, s.white_material, -PIECE_VALUE[s.pieces[capture].type])
                          ELSE s.white_material
             material2 == IF promoted
                          THEN Credit(color, material1,
                                      -(PIECE_VALUE[last_move.promotion] - PIECE_VALUE["pawn"]))
                          ELSE material1
             (* a promotion is reverted with a new Pawn object *)
             piece == IF promoted THEN Alloc(s) ELSE old_piece
             pieces0 == IF promoted
                        THEN [s.pieces EXCEPT ![piece] = NewPiece("pawn", color, start_x, start_y)]
                        ELSE s.pieces
             board1 == [[s.board EXCEPT ![start_y][start_x] = piece] EXCEPT ![end_y][end_x] = capture]
             pieces1 == [pieces0 EXCEPT ![piece].x = start_x, ![piece].y = start_y,
                                        ![piece].moved = last_move.moved]
             board2 == IF last_move.castling
                       THEN [[board1 EXCEPT ![last_move.rook_to[2]][last_move.rook_to[1]] = None]
                                EXCEPT ![last_move.rook_from[2]][last_move.rook_from[1]] = last_move.rook]
                       ELSE board1
             pieces2 == IF last_move.castling
                        THEN [pieces1 EXCEPT ![last_move.rook].x = last_move.rook_from[1],
                                             ![last_move.rook].y = last_move.rook_from[2],
                                             ![last_move.rook].moved = FALSE]
                        ELSE pieces1
             material3 == IF last_move.en_passant
                          THEN Credit(color, material2, -PIECE_VALUE["pawn"])
                          ELSE material2
             board3 == IF last_move.en_passant
                       THEN [board2 EXCEPT ![last_move.pawn_capture_pos[2]][last_move.pawn_capture_pos[1]]
                                               = last_move.pawn_captured]
                       ELSE board2
             signature == last_move.signature
             rp == s.repeated_positions
             new_rp == IF last_move.has_signature /\ signature \in DOMAIN rp
                       THEN IF rp[signature] - 1 <= 0
                            THEN [k \in DOMAIN rp \ {signature} |-> rp[k]]
                            ELSE [rp EXCEPT ![signature] = @ - 1]
                       ELSE rp
             new_lpm == IF Len(popped) > 0
                        THEN LET prev_move == popped[Len(popped)]
                             IN  IF /\ s.pieces[prev_move.piece].type = "pawn"
                                    /\ Abs(prev_move.from[2] - prev_move.to[2]) = 2
                                 THEN prev_move.to ELSE NoSq
                        ELSE NoSq
         IN  Returned([s EXCEPT !.history = popped,
                                !.board = board3,
                                !.pieces = pieces2,
                                !.white_material = material3,
                                !.turn = Other(s.turn),
                                !.repeated_positions = new_rp,
                                !.checkmate = FALSE,
                                !.winner = IF s.checkmate THEN NoWinner ELSE s.winner,
                                !.promotion_pending = FALSE,
                                !.pawn_to_promote = IF s.promotion_pending THEN None ELSE s.pawn_to_promote,
                                !.selected_piece = None,
                                !.valid_moves = {},
                                !.last_pawn_moved = new_lpm],
                      TRUE)


(***************************************************************************)
(* The players.  A game is played from the initial position by clicking    *)
(* squares; the squares offered at each point are those of the next move   *)
(* of the line being followed plus the line's extra squares, and every     *)
(* Board call may be made at any time, in any order.                       *)
(***************************************************************************)
(* g1f3 g8f6 f3g1 f6g8, twice *)
KnightShuffle == <<<<6,7,5,5>>, <<6,0,5,2>>, <<5,5,6,7>>, <<5,2,6,0>>,
                   <<6,7,5,5>>, <<6,0,5,2>>, <<5,5,6,7>>, <<5,2,6,0>>>>

Lines == <<
    (* 1. KnightShuffle: threefold repetition by knight shuffle *)
    [i \in 1..Len(KnightShuffle) |-> {KnightShuffle[i]}],
    (* 2. FoolsMate: fool's mate *)
    <<{<<5,6,5,5>>}, {<<4,1,4,3>>}, {<<6,6,6,4>>}, {<<3,0,7,4>>}>>,
    (* 3. PromotionUndo: en-passant capture, promotion on d8, and the queen's way from d8 to d2 *)
    <<{<<3,6,3,4>>}, {<<2,1,2,3>>}, {<<3,4,2,3>>}, {<<3,1,3,3>>},
      {<<2,3,3,2>>}, {<<1,0,3,1>>}, {<<4,7,3,6>>}, {<<0,1,0,2>>},
      {<<3,2,4,1>>}, {<<3,1,5,2>>}, {<<4,1,3,0>>}>>,
    (* 4. EnPassantPin: en-passant capture e5xd6 that opens the fifth rank between Qa5 and Kg5 *)
    <<{<<4,6,4,4>>}, {<<2,1,2,2>>}, {<<4,4,4,3>>}, {<<3,0,0,3>>},
      {<<4,7,4,6>>}, {<<0,1,0,2>>}, {<<4,6,5,5>>}, {<<1,1,1,2>>},
      {<<5,5,6,4>>}, {<<0,0,0,1>>}, {<<6,4,6,3>>}, {<<3,1,3,3>>},
      {<<4,3,3,2>>}>>,
    (* 5. EnPassantCheck: double step c2c4 that checks Kd5 beside the pawn on d4 *)
    <<{<<0,6,0,5>>}, {<<3,1,3,3>>}, {<<0,5,0,4>>}, {<<3,3,3,4>>},
      {<<0,4,0,3>>}, {<<4,0,3,1>>}, {<<7,6,7,5>>}, {<<3,1,3,2>>},
      {<<7,5,7,4>>}, {<<3,2,3,3>>}, {<<2,6,2,4>>}, {<<3,4,2,5>>}>>,
    (* 6. CastleThroughPawn: castling over f1 with a black pawn on e2 *)
    <<{<<4,6,4,4>>}, {<<3,1,3,3>>}, {<<4,4,4,3>>}, {<<3,3,3,4>>},
      {<<6,7,5,5>>}, {<<3,4,3,5>>}, {<<5,7,4,6>>}, {<<3,5,4,6>>},
      {<<4,7,6,7>>}>>,
    (* 7. BlockedButEnPassant: black has no move but a4xb3 en passant *)
    <<{<<4,6,4,5>>}, {<<0,1,0,3>>}, {<<3,7,7,3>>}, {<<0,0,0,2>>},
      {<<7,3,4,3>>}, {<<7,1,7,3>>}, {<<7,6,7,4>>}, {<<0,2,6,2>>},
      {<<0,6,0,5>>}, {<<6,2,7,2>>}, {<<4,3,2,1>>}, {<<5,1,5,2>>},
      {<<2,1,3,1>>}, {<<4,0,5,1>>}, {<<3,1,1,1>>}, {<<3,0,3,5>>},
      {<<1,1,1,0>>}, {<<3,5,7,1>>}, {<<1,0,2,0>>}, {<<0,3,0,4>>},
      {<<2,0,4,2>>}, {<<5,1,6,2>>}, {<<1,6,1,4>>}, {<<0,4,1,5>>}>>,
    (* 8. BareKings: captures down to K+R+B+N v K, then the black king takes two or three of them *)
    <<{<<4,6,4,4>>}, {<<3,1,3,3>>}, {<<4,4,3,3>>}, {<<3,0,3,3>>},
      {<<3,7,7,3>>}, {<<3,3,0,6>>}, {<<7,3,7,1>>}, {<<0,6,1,6>>},
      {<<7,1,6,1>>}, {<<7,0,7,6>>}, {<<2,7,1,6>>}, {<<7,6,7,7>>},
      {<<6,1,6,0>>}, {<<7,7,6,7>>}, {<<6,0,5,1>>}, {<<4,0,5,1>>},
      {<<0,7,0,1>>}, {<<6,7,6,6>>}, {<<0,1,0,0>>}, {<<6,6,5,6>>},
      {<<0,0,1,0>>}, {<<5,6,3,6>>}, {<<1,0,1,1>>}, {<<3,6,2,6>>},
      {<<1,1,2,1>>}, {<<2,0,7,5>>}, {<<2,1,2,6>>}, {<<7,5,5,7>>},
      {<<4,7,5,7>>}, {<<4,1,4,3>>}, {<<1,6,4,3>>}, {<<5,1,4,2>>},
      {<<2,6,2,4>>}, {<<5,0,1,4>>}, {<<2,4,1,4>>}, {<<4,2,3,3>>},
      {<<1,7,2,5>>}, {<<3,3,4,2>>}, {<<2,5,3,3>>},
      {<<4,2,3,3>>, <<4,2,4,3>>}, {<<1,4,4,4>>},
      {<<3,3,4,4>>, <<4,3,4,4>>, <<4,3,3,3>>}, {<<5,7,6,7>>},
      {<<3,3,4,4>>}>>,
    (* 9. QuickPromotion: a2a4 b7b5 a4b5 a7a6 b5a6 h7h6 a6a7 h6h5 a7b8, the pawn promoting on b8 *)
    <<{<<0,6,0,4>>}, {<<1,1,1,3>>}, {<<0,4,1,3>>}, {<<0,1,0,2>>},
      {<<1,3,0,2>>}, {<<7,1,7,2>>}, {<<0,2,0,1>>}, {<<7,2,7,3>>},
      {<<0,1,1,0>>}>>,
    (* 10. BareKingPromotion: captures down to Kg1 and Pf2 against Kf8, then the pawn's way to f7
           beside Kg6 with Kh8: f7f8 at once (a queen or rook mates), or after Kg6f6 Kh8h7
           (a queen stalemates); a knight or bishop leaves too little material *)
    <<{<<1,7,2,5>>}, {<<3,1,3,3>>}, {<<2,5,3,3>>}, {<<3,0,3,3>>},
      {<<6,6,6,4>>}, {<<3,3,0,6>>}, {<<0,7,0,6>>}, {<<2,0,6,4>>},
      {<<0,6,0,1>>}, {<<6,4,4,6>>}, {<<0,1,1,1>>}, {<<4,6,5,7>>},
      {<<1,1,1,0>>}, {<<0,0,1,0>>}, {<<4,7,5,7>>}, {<<1,0,1,6>>},
      {<<3,7,7,3>>}, {<<1,6,2,6>>}, {<<7,3,7,1>>}, {<<2,6,3,6>>},
      {<<7,1,6,1>>}, {<<7,0,7,6>>}, {<<6,1,6,0>>}, {<<7,6,7,7>>},
      {<<6,0,5,1>>}, {<<4,0,5,1>>}, {<<2,7,3,6>>}, {<<7,7,6,7>>},
      {<<5,7,6,7>>}, {<<5,0,7,2>>}, {<<3,6,7,2>>}, {<<2,1,2,3>>},
      {<<7,2,5,0>>}, {<<5,1,5,2>>}, {<<5,0,4,1>>}, {<<5,2,6,1>>},
      {<<4,1,2,3>>}, {<<6,1,5,1>>}, {<<2,3,5,0>>}, {<<5,1,5,0>>},
      {<<6,7,6,6>>}, {<<5,0,4,0>>}, {<<6,6,5,5>>}, {<<4,0,3,0>>},
      {<<5,5,4,4>>}, {<<3,0,2,0>>}, {<<4,4,5,3>>}, {<<2,0,2,1>>},
      {<<5,3,6,2>>}, {<<2,1,3,0>>}, {<<5,6,5,4>>}, {<<3,0,4,0>>},
      {<<5,4,5,3>>}, {<<4,0,5,0>>}, {<<5,3,5,2>>}, {<<5,0,6,0>>},
      {<<5,2,5,1>>}, {<<6,0,7,0>>}, {<<5,1,5,0>>, <<6,2,5,2>>}, {<<7,0,7,1>>},
      {<<5,1,5,0>>}>>,
    (* 11. KnightForKing: e2e4 e7e5 g1e2 g8f6 e2g1 f6g8 g1e2 b8c6 e2g1 g8f6 g1f3 c6b8 e1e2 f6g8 f3e1:
           king e1 and knight e2 after plies 3 and 7, knight e1 and king e2 after ply 15, the rest
           of the placement and the side to move the same *)
    <<{<<4,6,4,4>>}, {<<4,1,4,3>>}, {<<6,7,4,6>>}, {<<6,0,5,2>>},
      {<<4,6,6,7>>}, {<<5,2,6,0>>}, {<<6,7,4,6>>}, {<<1,0,2,2>>},
      {<<4,6,6,7>>}, {<<6,0,5,2>>}, {<<6,7,5,5>>}, {<<2,2,1,0>>},
      {<<4,7,4,6>>}, {<<5,2,6,0>>}, {<<5,5,4,7>>}>>
>>

Extras == <<{}, {}, {<<3,0>>, <<3,6>>}, {}, {}, {}, {}, {}, {}, {}, {}>>

(* GameController.handle_event discards input while a move is in flight;   *)
(* the Board's methods themselves can be called at any time.  Calls made   *)
(* while a move is in flight are explored for the plies named here, per    *)
(* line (the ply in flight is the last entry of the history).              *)
InFlightPlies == <<{}, {1, 2, 3, 4}, {}, {}, {}, {}, {}, {}, {9}, {}, {}>>

InFlight == animating => Len(history) \in InFlightPlies[line]

(* How far back the players take moves: undo_move is called only while the *)
(* history is longer than this, per line.                                  *)
TakenBackTo == <<0, 0, 0, 0, 0, 0, 0, 0, 0, 57, 0>>

(* When the player presses Escape in a game against the engine: only once  *)
(* the history has this many entries, per line.                            *)
EscapedFrom == <<0, 0, 0, 0, 0, 0, 0, 0, 9, 0, 0>>

(* When the player presses z in a game against the engine: only once the   *)
(* history has this many entries, per line.                                *)
TakenBackFrom == <<0, 0, 0, 0, 0, 0, 0, 0, 8, 0, 0>>

Clicks ==
    LET k == Len(history) + 1
        script == Lines[line]
    IN  (IF k <= Len(script)
         THEN UNION {{<<m[1], m[2]>>, <<m[3], m[4]>>} : m \in script[k]}
         ELSE {}) \cup Extras[line]

PromoteInputs == PromotionKinds \cup {"king", "pawn"}

Assign(r) ==
    \E s \in {Collect(r)} :
        /\ board' = s.board
        /\ pieces' = s.pieces
        /\ turn' = s.turn
        /\ selected_piece' = s.selected_piece
        /\ valid_moves' = s.valid_moves
        /\ history' = s.history
        /\ checkmate' = s.checkmate
        /\ winner' = s.winner
        /\ promotion_pending' = s.promotion_pending
        /\ pawn_to_promote' = s.pawn_to_promote
        /\ repeated_positions' = s.repeated_positions
        /\ last_pawn_moved' = s.last_pawn_moved
        /\ animating' = s.animating
        /\ animation_time' = s.animation_time
        /\ move_data' = s.move_data
        /\ white_material' = s.white_material
        /\ crashed' = s.crashed
        /\ line' = line

(* models/constants.py: the values of GameController.state                  *)
GAME_STATE_MENU == "menu"
GAME_STATE_MENU_SIDE == "menu_side"
GAME_STATE_MENU_DIFFICULTY == "menu_difficulty"
GAME_STATE_PLAYING == "playing"
GAME_STATE_CORONATION == "coronation"
GAME_STATE_FINAL == "final"

(* How many ai_turn threads can be alive at once.                          *)
MaxThreads == 2

(* How many games start_game starts.                                       *)
MaxGames == 2

(* The lines of Lines the two sides of a game against the engine follow.   *)
AILines == {2}

NoMove == <<>>

(* A thread slot nothing runs in.                                          *)
NoThread == [pc |-> "none", move |-> NoMove, promotion |-> "none", game |-> 0,
             abandoned |-> FALSE]

(* GameController.__init__ and GameState.__init__.  `game` counts the      *)
(* Boards created so far; a thread records in `game` the Board its         *)
(* computation was started for and in `abandoned` that the user returned   *)
(* to the menu before get_move returned.                                   *)
NewController ==
    [state |-> GAME_STATE_MENU, ai_mode |-> FALSE, play_as_black |-> FALSE,
     ai_thinking |-> FALSE, promotion_menu |-> FALSE, has_board |-> FALSE, game |-> 0,
     threads |-> [i \in 1..MaxThreads |-> NoThread]]

(* Board.__init__ registers the initial position in repeated_positions.    *)
InitialSignature == get_board_signature(InitialBoard, InitialPieces, COLOR_WHITE)

(* repeated_positions left empty by the constructor.                      *)
NoInitialRepetitions == [k \in {} |-> 0]

InitialRepetitions == [k \in {InitialSignature} |-> 1]

Init ==
    /\ board = InitialBoard
    /\ pieces = InitialPieces
    /\ turn = COLOR_WHITE
    /\ selected_piece = None
    /\ valid_moves = {}
    /\ history = <<>>
    /\ checkmate = FALSE
    /\ winner = NoWinner
    /\ promotion_pending = FALSE
    /\ pawn_to_promote = None
    /\ repeated_positions = InitialRepetitions
    /\ last_pawn_moved = NoSq
    /\ animating = FALSE
    /\ animation_time = 0
    /\ move_data = NoMoveData
    /\ white_material = 0
    /\ crashed = FALSE
    /\ line \in 1..Len(Lines)
    /\ undone_in_flight = 0
    /\ rejected_promotions = 0
    /\ controller = NewController

SelectPiece ==
    /\ ~crashed
    /\ InFlight
    /\ \E c \in Clicks : Assign(select_piece(St, c[1], c[2]))
    /\ UNCHANGED <<undone_in_flight, rejected_promotions, controller>>

MovePiece ==
    /\ ~crashed
    /\ \E c \in Clicks : Assign(move_piece(St, c[1], c[2]))
    /\ UNCHANGED <<undone_in_flight, rejected_promotions, controller>>

(* GameController.update calls update_animation on every frame of a move   *)
(* in flight.                                                              *)
UpdateAnimation ==
    /\ ~crashed
    /\ animating
    /\ Assign(update_animation(St))
    /\ UNCHANGED <<undone_in_flight, rejected_promotions, controller>>

PromotePawn ==
    /\ ~crashed
    /\ FreeIds(St) # {}
    /\ \E k \in PromoteInputs :
        LET rejected == promotion_pending /\ k \notin PromotionKinds
        IN  /\ rejected => rejected_promotions < MaxRejectedPromotions
            /\ Assign(promote_pawn(St, k))
            /\ rejected_promotions' = IF rejected THEN rejected_promotions + 1
                                      ELSE rejected_promotions
    /\ UNCHANGED <<undone_in_flight, controller>>

UndoMove ==
    /\ ~crashed
    /\ FreeIds(St) # {}
    /\ InFlight
    /\ Len(history) > TakenBackTo[line]
    /\ (animating \/ undone_in_flight > 0) => undone_in_flight < MaxUndoInFlight
    /\ Assign(undo_move(St))
    /\ undone_in_flight' = IF animating \/ undone_in_flight > 0 THEN undone_in_flight + 1
                            ELSE undone_in_flight
    /\ UNCHANGED <<rejected_promotions, controller>>

Next == SelectPiece \/ MovePiece \/ UpdateAnimation \/ PromotePawn \/ UndoMove

Spec == Init /\ [][Next]_vars

(***************************************************************************)
(* controllers/game_controller.py: games against the engine                *)
(*                                                                         *)
(* GameController owns the Board (self.board), the GameState and the       *)
(* ai_turn threads it starts.  The Board variables above are the fields of *)
(* the object self.board refers to.  Every Board here is created with      *)
(* ai_mode = True, so that it never rotates.                               *)
(***************************************************************************)
(* Board.__init__ *)
NewBoard ==
    [board |-> InitialBoard, pieces |-> InitialPieces, turn |-> COLOR_WHITE,
     selected_piece |-> None, valid_moves |-> {}, history |-> <<>>, checkmate |-> FALSE,
     winner |-> NoWinner, promotion_pending |-> FALSE, pawn_to_promote |-> None,
     repeated_positions |-> InitialRepetitions, last_pawn_moved |-> NoSq,
     animating |-> FALSE, animation_time |-> 0, move_data |-> NoMoveData,
     white_material |-> 0, crashed |-> FALSE, ret |-> FALSE]

player_color(c) == IF c.play_as_black THEN COLOR_BLACK ELSE COLOR_WHITE

ai_color(c) == IF c.play_as_black THEN COLOR_WHITE ELSE COLOR_BLACK

FreeSlots(c) == {i \in 1..MaxThreads : c.threads[i].pc = "none"}

(* threading.Thread(target=self.ai_turn).start() *)
Started(c) ==
    LET i == CHOOSE i \in FreeSlots(c) : \A j \in FreeSlots(c) : i <= j
    IN  [c EXCEPT !.threads[i] = [NoThread EXCEPT !.pc = "get_move", !.game = c.game]]

(* The step changes the controller to c and leaves the Board alone.        *)
Controls(c) ==
    /\ controller' = c
    /\ UNCHANGED <<board, pieces, turn, selected_piece, valid_moves, history, checkmate,
                   winner, promotion_pending, pawn_to_promote, repeated_positions,
                   last_pawn_moved, animating, animation_time, move_data, white_material,
                   crashed, line, undone_in_flight, rejected_promotions>>

(* The step changes the Board to r and the controller to c.                *)
Does(r, c) ==
    /\ Assign(r)
    /\ controller' = c
    /\ UNCHANGED <<undone_in_flight, rejected_promotions>>

InitAI ==
    /\ board = NewBoard.board
    /\ pieces = NewBoard.pieces
    /\ turn = NewBoard.turn
    /\ selected_piece = NewBoard.selected_piece
    /\ valid_moves = NewBoard.valid_moves
    /\ history = NewBoard.history
    /\ checkmate = NewBoard.checkmate
    /\ winner = NewBoard.winner
    /\ promotion_pending = NewBoard.promotion_pending
    /\ pawn_to_promote = NewBoard.pawn_to_promote
    /\ repeated_positions = NewBoard.repeated_positions
    /\ last_pawn_moved = NewBoard.last_pawn_moved
    /\ animating = NewBoard.animating
    /\ animation_time = NewBoard.animation_time
    /\ move_data = NewBoard.move_data
    /\ white_material = NewBoard.white_material
    /\ crashed = FALSE
    /\ line \in AILines
    /\ undone_in_flight = 0
    /\ rejected_promotions = 0
    /\ controller = NewController

(* handle_event in the main menu: "Play vs AI".                            *)
ChooseOpponent ==
    /\ ~crashed
    /\ controller.state = GAME_STATE_MENU
    /\ Controls([controller EXCEPT !.state = GAME_STATE_MENU_SIDE])

(* handle_event in the side menu: White or Black.                          *)
ChooseSide ==
    /\ ~crashed
    /\ controller.state = GAME_STATE_MENU_SIDE
    /\ \E black \in BOOLEAN :
        Controls([controller EXCEPT !.play_as_black = black,
                                    !.state = GAME_STATE_MENU_DIFFICULTY])

(* handle_event in the side menu and in the difficulty menu: Back.         *)
MenuBack ==
    /\ ~crashed
    /\ controller.state \in {GAME_STATE_MENU_SIDE, GAME_STATE_MENU_DIFFICULTY}
    /\ Controls([controller EXCEPT !.state = IF controller.state = GAME_STATE_MENU_SIDE
                                              THEN GAME_STATE_MENU
                                              ELSE GAME_STATE_MENU_SIDE])

(* GameController.start_game and GameState.start_game, called with         *)
(* ai_mode = True from the difficulty menu.  Neither touches ai_thinking   *)
(* or promotion_menu unless the engine is to move first.                   *)
start_game(c) ==
    LET started == [c EXCEPT !.has_board = TRUE, !.game = c.game + 1, !.ai_mode = TRUE,
                             !.state = GAME_STATE_PLAYING]
    IN  IF started.play_as_black
        THEN Started([started EXCEPT !.ai_thinking = TRUE])
        ELSE started

StartGame ==
    /\ ~crashed
    /\ controller.state = GAME_STATE_MENU_DIFFICULTY
    /\ controller.game < MaxGames
    /\ controller.play_as_black => FreeSlots(controller) # {}
    /\ Does(NewBoard, start_game(controller))

(* A computation is in flight from the start of its thread until get_move  *)
(* returns.                                                                *)
Computing(t) == t.pc \in {"get_move", "engine"}

(* GameController.return_to_menu and GameState.return_to_menu: the Board,  *)
(* ai_thinking and the threads are left as they are.                       *)
return_to_menu(c) ==
    [c EXCEPT !.state = GAME_STATE_MENU,
              !.threads = [i \in 1..MaxThreads |->
                             IF Computing(c.threads[i])
                             THEN [c.threads[i] EXCEPT !.abandoned = TRUE]
                             ELSE c.threads[i]]]

(* handle_event: Escape while playing (accepted during animations and      *)
(* while the engine thinks too) or on the final screen.                    *)
ReturnToMenu ==
    /\ ~crashed
    /\ Len(history) >= EscapedFrom[line]
    /\ controller.state \in {GAME_STATE_PLAYING, GAME_STATE_FINAL}
    /\ Controls(return_to_menu(controller))

(* GameController.update while playing: the Board after its animation step. *)
update_board(s) == IF s.animating THEN update_animation(s) ELSE s

(* The test of update's "AI turn check".                                   *)
ai_to_move(s, c) ==
    /\ c.ai_mode
    /\ s.turn = ai_color(c)
    /\ ~s.checkmate
    /\ ~s.promotion_pending
    /\ ~c.ai_thinking
    /\ ~s.animating

(* GameController.update while playing: the controller after it, given the *)
(* Board s its animation step left.                                        *)
update_controller(s, c) ==
    LET final == IF s.checkmate THEN [c EXCEPT !.state = GAME_STATE_FINAL] ELSE c
        menu == IF s.promotion_pending /\ ~final.promotion_menu
                THEN [final EXCEPT !.promotion_menu = TRUE, !.state = GAME_STATE_CORONATION]
                ELSE final
    IN  IF ai_to_move(s, menu) THEN Started([menu EXCEPT !.ai_thinking = TRUE]) ELSE menu

(* One frame of the main loop.  An exception update_animation raises      *)
(* leaves update and ends the program.                                     *)
Update ==
    /\ ~crashed
    /\ controller.state = GAME_STATE_PLAYING
    /\ controller.has_board
    /\ \E s \in {update_board(St)} :
        IF s.crashed THEN Does(s, controller)
        ELSE /\ ai_to_move(s, controller) => FreeSlots(controller) # {}
             /\ Does(s, update_controller(s, controller))

(* The test handle_event makes before it reads clicks and the z key.       *)
accepts_input(s, c) ==
    /\ c.state = GAME_STATE_PLAYING
    /\ ~s.animating
    /\ ~(c.ai_mode /\ c.ai_thinking)
    /\ ~s.checkmate
    /\ ~s.promotion_pending

(* GameController._handle_board_click with a piece selected, after         *)
(* move_piece refused the square: select_piece on it, or the selection is  *)
(* dropped.                                                                *)
reselect(s, x, y) ==
    \* the one value of the set
    CHOOSE r \in {IF selected.ret THEN Returned(selected, FALSE)
                  ELSE [selected EXCEPT !.selected_piece = None, !.valid_moves = {}] :
                  selected \in {select_piece(s, x, y)}} : TRUE

(* GameController._handle_board_click: the Board after the click; `ret` is  *)
(* whether move_piece accepted it.                                         *)
handle_board_click(s, x, y) ==
    IF s.selected_piece # None
    THEN CHOOSE r \in {IF moved.ret THEN moved ELSE reselect(s, x, y) :
                       moved \in {move_piece(s, x, y)}} : TRUE
    ELSE Returned(select_piece(s, x, y), FALSE)

(* GameController._handle_board_click: the controller after the click.     *)
click_controller(s, c) ==
    IF ~s.ret THEN c
    ELSE IF s.promotion_pending
    THEN [c EXCEPT !.promotion_menu = TRUE, !.state = GAME_STATE_CORONATION]
    ELSE IF s.checkmate THEN [c EXCEPT !.state = GAME_STATE_FINAL]
    ELSE c

Click ==
    /\ ~crashed
    /\ accepts_input(St, controller)
    /\ \E q \in Clicks :
        \E s \in {handle_board_click(St, q[1], q[2])} :
            Does(s, click_controller(s, controller))

(* GameController._handle_undo in a game against the engine.               *)
handle_undo(s, c) ==
    IF s.turn = player_color(c)
    THEN IF Len(s.history) >= 2 THEN undo_move(undo_move(s)) ELSE s
    ELSE IF s.history # <<>> THEN undo_move(s) ELSE s

Undo ==
    /\ ~crashed
    /\ Len(history) >= TakenBackFrom[line]
    /\ accepts_input(St, controller)
    /\ FreeIds(St) # {}
    /\ Does(handle_undo(St, controller), controller)

(* What AIController.get_move can return for the position it is given: a   *)
(* move of the line that is legal there (with the promotion the engine     *)
(* names), or no move at all when Stockfish fails.                         *)
EngineMoves(s) ==
    LET k == Len(s.history) + 1
        script == Lines[line]
    IN  IF k <= Len(script)
        THEN {m \in script[k] :
                LET p == s.board[m[2]][m[1]]
                IN  /\ p # None
                    /\ s.pieces[p].color = s.turn
                    /\ <<m[3], m[4]>> \in LegalMoves(s.board, s.pieces, s.last_pawn_moved, p)}
        ELSE {}

EnginePromotion(s, m) ==
    IF s.pieces[s.board[m[2]][m[1]]].type = "pawn" /\ m[4] \in {0, 7} THEN "queen" ELSE "none"

Thread(i) == controller.threads[i]

(* ai_turn: the call of self.ai.get_move with the Board's position.        *)
AiGetMove ==
    /\ ~crashed
    /\ \E i \in 1..MaxThreads :
        /\ Thread(i).pc = "get_move"
        /\ \/ \E m \in EngineMoves(St) :
                 Controls([controller EXCEPT !.threads[i].pc = "engine",
                                             !.threads[i].move = m,
                                             !.threads[i].promotion = EnginePromotion(St, m)])
           \/ Controls([controller EXCEPT !.threads[i].pc = "engine"])

(* ai_turn taking a move back when get_move fails.                         *)
AiReturnUndoingOnFailure ==
    /\ ~crashed
    /\ FreeIds(St) # {}
    /\ \E i \in 1..MaxThreads :
        /\ Thread(i).pc = "engine"
        /\ IF Thread(i).move = NoMove
           THEN Does(undo_move(St),
                     [controller EXCEPT !.threads[i] = NoThread, !.ai_thinking = FALSE])
           ELSE Controls(IF ~controller.ai_thinking
                         THEN [controller EXCEPT !.threads[i] = NoThread]
                         ELSE [controller EXCEPT !.threads[i].pc = "select_piece"])

(* ai_turn: get_move returns or raises, and the test of ai_thinking.  An   *)
(* exception is reported and ai_thinking cleared; with ai_thinking found   *)
(* False the thread returns at once.                                       *)
AiReturn ==
    /\ ~crashed
    /\ \E i \in 1..MaxThreads :
        /\ Thread(i).pc = "engine"
        /\ Controls(IF Thread(i).move = NoMove
                    THEN [controller EXCEPT !.threads[i] = NoThread, !.ai_thinking = FALSE]
                    ELSE IF ~controller.ai_thinking
                    THEN [controller EXCEPT !.threads[i] = NoThread]
                    ELSE [controller EXCEPT !.threads[i].pc = "select_piece"])

(* ai_turn: self.board.select_piece(start_x, start_y) *)
AiSelectPiece ==
    /\ ~crashed
    /\ \E i \in 1..MaxThreads :
        /\ Thread(i).pc = "select_piece"
        /\ Does(select_piece(St, Thread(i).move[1], Thread(i).move[2]),
                [controller EXCEPT !.threads[i].pc = "move_piece"])

(* ai_turn: self.board.move_piece(end_x, end_y) *)
AiMovePiece ==
    /\ ~crashed
    /\ \E i \in 1..MaxThreads :
        /\ Thread(i).pc = "move_piece"
        /\ Does(move_piece(St, Thread(i).move[3], Thread(i).move[4]),
                [controller EXCEPT !.threads[i].pc = "promote_pawn"])

(* ai_turn: promote_pawn if a promotion is pending and the engine named    *)
(* one (an exception it raises is caught in ai_turn), then ai_thinking is  *)
(* cleared and the thread ends.                                            *)
AiFinish ==
    /\ ~crashed
    /\ FreeIds(St) # {}
    /\ \E i \in 1..MaxThreads :
        /\ Thread(i).pc = "promote_pawn"
        /\ Does(IF promotion_pending /\ Thread(i).promotion # "none"
                THEN [promote_pawn(St, Thread(i).promotion) EXCEPT !.crashed = FALSE]
                ELSE St,
                [controller EXCEPT !.threads[i] = NoThread, !.ai_thinking = FALSE])

NextAI ==
    \/ ChooseOpponent
    \/ ChooseSide
    \/ MenuBack
    \/ StartGame
    \/ ReturnToMenu
    \/ Update
    \/ Click
    \/ Undo
    \/ AiGetMove
    \/ AiReturn
    \/ AiSelectPiece
    \/ AiMovePiece
    \/ AiFinish

SpecAI == InitAI /\ [][NextAI]_vars

(* The games against the engine in which the engine promotes a pawn.       *)
AIPromotionLines == {9}

InitAIPromotion ==
    /\ board = NewBoard.board
    /\ pieces = NewBoard.pieces
    /\ turn = NewBoard.turn
    /\ selected_piece = NewBoard.selected_piece
    /\ valid_moves = NewBoard.valid_moves
    /\ history = NewBoard.history
    /\ checkmate = NewBoard.checkmate
    /\ winner = NewBoard.winner
    /\ promotion_pending = NewBoard.promotion_pending
    /\ pawn_to_promote = NewBoard.pawn_to_promote
    /\ repeated_positions = NewBoard.repeated_positions
    /\ last_pawn_moved = NewBoard.last_pawn_moved
    /\ animating = NewBoard.animating
    /\ animation_time = NewBoard.animation_time
    /\ move_data = NewBoard.move_data
    /\ white_material = NewBoard.white_material
    /\ crashed = FALSE
    /\ line \in AIPromotionLines
    /\ undone_in_flight = 0
    /\ rejected_promotions = 0
    /\ controller = NewController

SpecAIPromotion == InitAIPromotion /\ [][NextAI]_vars

(***************************************************************************)
(* Properties of the specification (spec.md), stated over the model.       *)
(***************************************************************************)

(* A position: no move in flight, no promotion pending, the game going on. *)
AtRest == ~crashed /\ ~animating /\ ~promotion_pending /\ ~checkmate

(* A piece of the side to move is selected and valid_moves is its          *)
(* legal-move list in the current position.                                *)
Selected ==
    /\ AtRest
    /\ selected_piece # None
    /\ board[pieces[selected_piece].y][pieces[selected_piece].x] = selected_piece
    /\ pieces[selected_piece].color = turn
    /\ valid_moves = LegalMoves(board, pieces, last_pawn_moved, selected_piece)

(* The selected piece moved to square m and the move completed.            *)
Executed(s, m) == complete_move(move_piece(s, m[1], m[2]))

Squares == Coord \X Coord

KingsOf(bd, ps, color) ==
    {q \in Squares : /\ bd[q[2]][q[1]] # None
                     /\ ps[bd[q[2]][q[1]]].type = "king"
                     /\ ps[bd[q[2]][q[1]]].color = color}

(* C1: in every reachable position, no move of a piece's legal-move list   *)
(* (valid_moves plus the en-passant move select_piece adds) leaves the     *)
(* mover's own king attacked once the move is executed.                    *)
C1_LegalMoveKeepsOwnKingSafe ==
    Selected =>
        \A m \in valid_moves :
            LET s == Executed(St, m)
            IN  HasKing(s.board, s.pieces, turn) => ~is_in_check(s.board, s.pieces, turn)

(* C2: in no reachable position does the legal-move list of a piece of the *)
(* side to move contain the square occupied by the opposing king.          *)
C2_NoLegalMoveTargetsKing ==
    AtRest =>
        \A q \in Squares :
            LET p == board[q[2]][q[1]]
            IN  (p # None /\ pieces[p].color = turn) =>
                    LegalMoves(board, pieces, last_pawn_moved, p)
                        \cap KingsOf(board, pieces, Other(turn)) = {}

(* C3: after any sequence of select_piece, move_piece with its completion, *)
(* promote_pawn and undo_move the grid holds exactly one white king and    *)
(* exactly one black king, no piece object sits in two cells, and every    *)
(* piece's stored (x, y) is the cell that holds it.                        *)
C3_GridWellFormed ==
    (crashed \/ ~animating) =>
        /\ Cardinality(KingsOf(board, pieces, COLOR_WHITE)) = 1
        /\ Cardinality(KingsOf(board, pieces, COLOR_BLACK)) = 1
        /\ \A q, r \in Squares :
               (q # r /\ board[q[2]][q[1]] # None) => board[q[2]][q[1]] # board[r[2]][r[1]]
        /\ \A q \in Squares :
               board[q[2]][q[1]] # None =>
                   /\ pieces[board[q[2]][q[1]]].x = q[1]
                   /\ pieces[board[q[2]][q[1]]].y = q[2]

(* C4: for every legal move from every reachable position, executing the   *)
(* move (move_piece and its completion) and then calling undo_move yields   *)
(* the same position signature and the same repetition map as before.      *)
C4_UndoRestoresSignatureAndCounts ==
    Selected =>
        \A m \in valid_moves :
            LET s == Executed(St, m)
                u == undo_move(s)
            IN  ~s.crashed =>
                    /\ get_board_signature(u.board, u.pieces, u.turn)
                           = get_board_signature(board, pieces, turn)
                    /\ u.repeated_positions = repeated_positions

(* Chess attack, by the rules: the piece on square e attacks square q.     *)
Sign(n) == IF n > 0 THEN 1 ELSE IF n < 0 THEN -1 ELSE 0

Attacks(bd, ps, e, q) ==
    LET me == ps[bd[e[2]][e[1]]]
        dx == q[1] - e[1]
        dy == q[2] - e[2]
        n == IF Abs(dx) > Abs(dy) THEN Abs(dx) ELSE Abs(dy)
        straight == (dx = 0) # (dy = 0)
        diagonal == dx # 0 /\ Abs(dx) = Abs(dy)
        clear == \A i \in 1..(n - 1) : bd[e[2] + i * Sign(dy)][e[1] + i * Sign(dx)] = None
    IN  CASE me.type = "pawn" ->
                 Abs(dx) = 1 /\ dy = (IF me.color = COLOR_WHITE THEN -1 ELSE 1)
          [] me.type = "knight" -> <<dx, dy>> \in KnightJumps
          [] me.type = "king" -> n = 1
          [] me.type = "rook" -> straight /\ clear
          [] me.type = "bishop" -> diagonal /\ clear
          [] me.type = "queen" -> (straight \/ diagonal) /\ clear
          [] OTHER -> FALSE

Attacked(bd, ps, q, by) ==
    \E e \in Squares : /\ bd[e[2]][e[1]] # None
                       /\ ps[bd[e[2]][e[1]]].color = by
                       /\ Attacks(bd, ps, e, q)

(* The last move of the history is a completed pawn double step.           *)
LastDoubleStep ==
    /\ Len(history) > 0
    /\ history[Len(history)].has_signature
    /\ pieces[history[Len(history)].piece].type = "pawn"
    /\ Abs(history[Len(history)].from[2] - history[Len(history)].to[2]) = 2
    /\ board[history[Len(history)].to[2]][history[Len(history)].to[1]] = history[Len(history)].piece

(* The pawn on square q takes the pawn on square v en passant, landing on  *)
(* the skipped square k: is its own king attacked afterwards?              *)
EnPassantExposesKing(q, v, k) ==
    LET p == board[q[2]][q[1]]
        bd == [[[board EXCEPT ![q[2]][q[1]] = None] EXCEPT ![v[2]][v[1]] = None]
                  EXCEPT ![k[2]][k[1]] = p]
    IN  \E s \in KingsOf(bd, pieces, pieces[p].color) : Attacked(bd, pieces, s, Other(pieces[p].color))

(* The pawns of the side to move that stand beside square v.               *)
PawnsBeside(v) ==
    {q \in Squares : /\ q[2] = v[2]
                     /\ Abs(q[1] - v[1]) = 1
                     /\ board[q[2]][q[1]] # None
                     /\ pieces[board[q[2]][q[1]]].type = "pawn"
                     /\ pieces[board[q[2]][q[1]]].color = turn}

(* C5: after a pawn double step that lands beside an enemy pawn,           *)
(* select_piece on that enemy pawn offers the capture onto the skipped     *)
(* square on the immediately following turn, provided it does not leave    *)
(* its own king in check; once one further move has completed the capture  *)
(* is no longer offered: a pawn's legal-move list holds a diagonal move to *)
(* an empty square only right after the double step of the pawn beside it. *)
C5_EnPassantOfferedThenExpires ==
    AtRest =>
        /\ (LastDoubleStep /\ pieces[history[Len(history)].piece].color # turn) =>
               LET e == history[Len(history)]
                   k == <<e.to[1], (e.from[2] + e.to[2]) \div 2>>
               IN  \A q \in PawnsBeside(e.to) :
                       ~EnPassantExposesKing(q, e.to, k) =>
                           k \in LegalMoves(board, pieces, last_pawn_moved, board[q[2]][q[1]])
        /\ \A q \in Squares :
               LET p == board[q[2]][q[1]]
               IN  (p # None /\ pieces[p].type = "pawn" /\ pieces[p].color = turn) =>
                       \A m \in LegalMoves(board, pieces, last_pawn_moved, p) :
                           (m[1] # q[1] /\ board[m[2]][m[1]] = None) =>
                               /\ LastDoubleStep
                               /\ history[Len(history)].to = <<m[1], q[2]>>
                               /\ pieces[history[Len(history)].piece].color # turn

(* C6: kingside castling is in the king's legal-move list exactly when the *)
(* king and the kingside rook have never moved, every square between them  *)
(* is empty, and none of the king's start, transit and final squares is    *)
(* attacked by an enemy piece, pawns attacking diagonally included.        *)
C6_KingsideCastlingExactlyWhenAllowed ==
    AtRest =>
        \A k \in KingsOf(board, pieces, turn) :
            LET p == board[k[2]][k[1]]
                rook == board[k[2]][7]
                offered == /\ k[1] + 2 <= 7
                           /\ <<k[1] + 2, k[2]>> \in LegalMoves(board, pieces, last_pawn_moved, p)
                allowed == /\ ~pieces[p].moved
                           /\ rook # None
                           /\ pieces[rook].type = "rook"
                           /\ pieces[rook].color = turn
                           /\ ~pieces[rook].moved
                           /\ \A x \in (k[1] + 1)..6 : board[k[2]][x] = None
                           /\ \A x \in k[1]..(k[1] + 2) :
                                  ~Attacked(board, pieces, <<x, k[2]>>, Other(turn))
            IN  offered <=> allowed

NoLegalMove(color) ==
    \A q \in Squares :
        (board[q[2]][q[1]] # None /\ pieces[board[q[2]][q[1]]].color = color) =>
            LegalMoves(board, pieces, last_pawn_moved, board[q[2]][q[1]]) = {}

(* C7: a completed move sets the terminal flag as checkmate (winner = the  *)
(* mover) or as stalemate (draw) only if the side to move has no legal     *)
(* move at all, en-passant captures that select_piece would offer          *)
(* included; checkmate requires that side to be in check, stalemate        *)
(* requires it not to be.                                                  *)
C7_MateOrStalemateOnlyWithoutLegalMove ==
    (checkmate /\ ~crashed /\ ~animating) =>
        /\ winner \in {COLOR_WHITE, COLOR_BLACK} =>
               /\ winner = Other(turn)
               /\ NoLegalMove(turn)
               /\ is_in_check(board, pieces, turn)
        /\ (/\ winner = DRAW
            /\ Count(repeated_positions, get_board_signature(board, pieces, turn)) < 3
            /\ ~insufficient_material(board, pieces)) =>
               /\ NoLegalMove(turn)
               /\ ~is_in_check(board, pieces, turn)

(* update_animation applies a move in flight, which is no move to the      *)
(* farthest rank and does not raise.                                       *)
Completes == animating /\ ~animating' /\ ~crashed' /\ ~promotion_pending'

ShufflePlayed(k) ==
    /\ ~animating
    /\ ~crashed
    /\ Len(history) = k
    /\ \A i \in 1..k : /\ <<history[i].from[1], history[i].from[2],
                            history[i].to[1], history[i].to[2]>> = KnightShuffle[i]
                       /\ history[i].has_signature

(* C9: playing Nf3, Nf6, Ng1, Ng8 repeatedly from the starting position,   *)
(* the game is not terminal after any of the first seven plies and becomes *)
(* terminal with winner draw on the eighth ply, when the count of the      *)
(* starting position's signature reaches 3.                                *)
C9_KnightShuffleDrawOnEighthPly ==
    \A k \in 1..8 :
        ShufflePlayed(k) =>
            IF k < 8
            THEN ~checkmate /\ Count(repeated_positions, InitialSignature) < 3
            ELSE checkmate /\ winner = DRAW /\ Count(repeated_positions, InitialSignature) = 3

C9_Witness ==
    /\ ShufflePlayed(8)
    /\ get_board_signature(board, pieces, turn) = InitialSignature
    /\ checkmate
    /\ winner = DRAW

NonKings(bd, ps) ==
    {q \in Squares : bd[q[2]][q[1]] # None /\ ps[bd[q[2]][q[1]]].type # "king"}

KindsLeft(bd, ps) == {ps[bd[q[2]][q[1]]].type : q \in NonKings(bd, ps)}

(* C10: a completed move that leaves only the two kings, or the two kings  *)
(* plus exactly one bishop or exactly one knight, sets the terminal flag   *)
(* with winner draw; a move that leaves king and rook against king does    *)
(* not make the game terminal on material grounds (it is terminal only by  *)
(* checkmate, repetition or stalemate).                                    *)
C10_InsufficientMaterial ==
    [][Completes =>
          LET left == NonKings(board', pieces')
              kinds == KindsLeft(board', pieces')
          IN  /\ (left = {} \/ (Cardinality(left) = 1 /\ kinds \subseteq {"bishop", "knight"})) =>
                     checkmate' /\ winner' = DRAW
              /\ (Cardinality(left) = 1 /\ kinds = {"rook"} /\ checkmate') =>
                     \/ is_checkmate(board', pieces', turn')
                     \/ is_stalemate(board', pieces', turn')
                     \/ Count(repeated_positions',
                              get_board_signature(board', pieces', turn')) >= 3]_vars

(* The black king has taken the last white piece, the rook, two plies      *)
(* after taking the knight had left king and rook against king.            *)
C10_Witness ==
    /\ ~animating
    /\ Len(history) > 2
    /\ history[Len(history)].has_signature
    /\ history[Len(history)].capture # None
    /\ pieces[history[Len(history)].capture].type = "rook"
    /\ history[Len(history) - 2].capture # None
    /\ pieces[history[Len(history) - 2].capture].type = "knight"
    /\ NonKings(board, pieces) = {}
    /\ checkmate
    /\ winner = DRAW

(* 1. f3 e5 2. g4 Qh4 *)
FoolsMate == <<<<5,6,5,5>>, <<4,1,4,3>>, <<6,6,6,4>>, <<3,0,7,4>>>>

(* The moves of `game` have been played from the starting position, in     *)
(* order, and each has completed.                                          *)
Played(game) ==
    /\ ~animating
    /\ ~crashed
    /\ Len(history) = Len(game)
    /\ \A i \in 1..Len(game) :
           /\ <<history[i].from[1], history[i].from[2],
                history[i].to[1], history[i].to[2]>> = game[i]
           /\ history[i].has_signature

(* C11: after 1. f3 e5 2. g4 Qh4 from the starting position the game is    *)
(* terminal with winner black, the side that delivered the last move, and  *)
(* no white piece has any legal move.                                      *)
C11_FoolsMateIsCheckmate ==
    Played(FoolsMate) =>
        /\ checkmate
        /\ winner = COLOR_BLACK
        /\ turn = COLOR_WHITE
        /\ NoLegalMove(COLOR_WHITE)

(* Fool's mate is on the board: the queen stands on h4, White is in check. *)
C11_Witness ==
    /\ Played(FoolsMate)
    /\ board[4][7] # None
    /\ pieces[board[4][7]].type = "queen"
    /\ pieces[board[4][7]].color = COLOR_BLACK
    /\ is_in_check(board, pieces, COLOR_WHITE)
    /\ OwnSquares(board, pieces, COLOR_WHITE) # {}

(* The legal moves of a side in the current position: (square, target)     *)
(* pairs over the lists select_piece would cache for its pieces.           *)
MovesOf(color) ==
    UNION {{<<q, m>> : m \in LegalMoves(board, pieces, last_pawn_moved, board[q[2]][q[1]])} :
              q \in OwnSquares(board, pieces, color)}

MovesOfKind(color, kind) ==
    {qm \in MovesOf(color) : pieces[board[qm[1][2]][qm[1][1]]].type = kind}

StartingPosition ==
    /\ ~animating
    /\ ~crashed
    /\ get_board_signature(board, pieces, turn) = InitialSignature
    /\ \A q \in OwnSquares(board, pieces, COLOR_WHITE) : ~pieces[board[q[2]][q[1]]].moved

(* C12: in the starting position the side to move, White, has exactly 20   *)
(* legal moves over all its pieces: 16 pawn moves and 4 knight moves, and  *)
(* no other piece has any.                                                 *)
C12_TwentyMovesAtStart ==
    StartingPosition =>
        /\ turn = COLOR_WHITE
        /\ Cardinality(MovesOf(COLOR_WHITE)) = 20
        /\ Cardinality(MovesOfKind(COLOR_WHITE, "pawn")) = 16
        /\ Cardinality(MovesOfKind(COLOR_WHITE, "knight")) = 4
        /\ \A kind \in {"rook", "bishop", "queen", "king"} : MovesOfKind(COLOR_WHITE, kind) = {}

(* select_piece has been called on the knight g1 in the starting position  *)
(* and cached its two moves.                                               *)
C12_Witness ==
    /\ StartingPosition
    /\ history = <<>>
    /\ selected_piece = board[7][6]
    /\ pieces[selected_piece].type = "knight"
    /\ valid_moves = {<<5, 5>>, <<7, 5>>}

(* The signatures the program has on record.                               *)
KnownSignatures ==
    DOMAIN repeated_positions
    \cup {history[i].signature : i \in {j \in 1..Len(history) : history[j].has_signature}}
    \cup {InitialSignature}

(* How often signature sig is on record in the history h, the initial      *)
(* position counted as one occurrence.                                     *)
Occurrences(h, sig) ==
    Cardinality({i \in 1..Len(h) : h[i].has_signature /\ h[i].signature = sig})
    + (IF sig = InitialSignature THEN 1 ELSE 0)

(* C13: in every reachable state, for every signature s the repetition     *)
(* map's count for s equals the number of history entries whose recorded   *)
(* signature is s, plus one if s is the signature of the initial position; *)
(* undo_move decrements (and removes at zero) exactly the count of the     *)
(* popped entry's signature.                                               *)
C13_RepetitionMapMatchesHistory ==
    /\ \A sig \in KnownSignatures :
           Count(repeated_positions, sig) = Occurrences(history, sig)
    /\ (~crashed /\ Len(history) > 0) =>
           LET last == history[Len(history)]
               after == undo_move(St).repeated_positions
           IN  \A sig \in KnownSignatures :
                   /\ Count(after, sig) =
                          Count(repeated_positions, sig)
                          - (IF last.has_signature /\ last.signature = sig THEN 1 ELSE 0)
                   /\ sig \in DOMAIN after => after[sig] > 0

(* C14: from the moment a pawn move to the farthest rank is applied until  *)
(* promote_pawn succeeds (while the promotion is pending), side-to-move is *)
(* the pawn's side, the move has set no terminal flag, and every           *)
(* select_piece and move_piece call fails.                                 *)
C14_PendingPromotionSuspendsPlay ==
    (promotion_pending /\ ~crashed) =>
        /\ pawn_to_promote # None
        /\ turn = pieces[pawn_to_promote].color
        /\ ~checkmate
        /\ \A q \in Squares : /\ ~select_piece(St, q[1], q[2]).ret
                              /\ ~move_piece(St, q[1], q[2]).ret

(* C15: promote_pawn called while a promotion is pending with a kind other *)
(* than queen, rook, bishop or knight (king, pawn) is rejected and changes *)
(* nothing: the pawn stays on its square, the promotion stays pending, and *)
(* side-to-move and the material tally keep their values.                  *)
C15_InvalidPromotionKindChangesNothing ==
    (promotion_pending /\ pawn_to_promote # None /\ ~crashed) =>
        \A kind \in PromoteInputs \ PromotionKinds :
            LET after == promote_pawn(St, kind)
            IN  /\ ~after.ret
                /\ after.board = board
                /\ after.pieces = pieces
                /\ after.promotion_pending
                /\ after.pawn_to_promote = pawn_to_promote
                /\ after.turn = turn
                /\ after.history = history
                /\ after.white_material = white_material

(* The piece on square q belongs to the side that is not to move.          *)
OpponentOn(q) == board[q[2]][q[1]] # None /\ pieces[board[q[2]][q[1]]].color # turn

(* C16: select_piece fails (returns false) when the game is terminal, when *)
(* a promotion is pending, when the square is empty, or when the piece on  *)
(* it belongs to the side not to move; a failing call leaves the selected  *)
(* piece, the cached legal-move list, the board, the history and           *)
(* side-to-move unchanged.                                                 *)
C16_SelectFailsAndKeepsState ==
    ~crashed =>
        \A q \in Squares :
            LET after == select_piece(St, q[1], q[2])
            IN  /\ (checkmate \/ promotion_pending \/ board[q[2]][q[1]] = None \/ OpponentOn(q)) =>
                       ~after.ret
                /\ ~after.ret =>
                       /\ after.selected_piece = selected_piece
                       /\ after.valid_moves = valid_moves
                       /\ after.board = board
                       /\ after.pieces = pieces
                       /\ after.history = history
                       /\ after.turn = turn

(* A piece is selected with its moves cached, and the next click offered   *)
(* is on a square held by the other side: select_piece on it fails.        *)
C16_Witness ==
    /\ Selected
    /\ valid_moves # {}
    /\ \E q \in Clicks : OpponentOn(q) /\ ~select_piece(St, q[1], q[2]).ret

(* C17: move_piece fails (returns false) when no piece is selected, when   *)
(* the target square is not in the cached legal-move list, when the game   *)
(* is terminal, or when a promotion is pending; a failing call leaves      *)
(* piece placement, history, side-to-move, the repetition map and the      *)
(* double-step marker unchanged.                                           *)
C17_MoveFailsAndKeepsState ==
    ~crashed =>
        \A q \in Squares :
            LET after == move_piece(St, q[1], q[2])
            IN  /\ (selected_piece = None \/ q \notin valid_moves
                       \/ checkmate \/ promotion_pending) => ~after.ret
                /\ ~after.ret =>
                       /\ after.board = board
                       /\ after.pieces = pieces
                       /\ after.history = history
                       /\ after.turn = turn
                       /\ after.repeated_positions = repeated_positions
                       /\ after.last_pawn_moved = last_pawn_moved

(* A piece is selected and the next click offered is on a square that is   *)
(* not among its cached moves: move_piece on it fails.                     *)
C17_Witness ==
    /\ Selected
    /\ valid_moves # {}
    /\ \E q \in Clicks : q \notin valid_moves /\ ~move_piece(St, q[1], q[2]).ret

(* update_animation applies the move in flight (a move to the farthest     *)
(* rank included) and does not raise.                                      *)
Applies == animating /\ ~animating' /\ ~crashed'

(* The move in flight is a pawn's double step.                             *)
DoubleStepInFlight ==
    /\ pieces[move_data.piece].type = "pawn"
    /\ Abs(move_data.from_y - move_data.to_y) = 2

(* C18: after a move completes, the last-double-step marker is non-empty   *)
(* only if that move was itself a pawn double-step, in which case it names *)
(* that pawn's destination square; so a marker set by one side's           *)
(* double-step is gone once the opponent's next move has completed.        *)
C18_MarkerLivesOneMove ==
    [][Applies =>
          (last_pawn_moved' # NoSq =>
               /\ DoubleStepInFlight
               /\ last_pawn_moved' = <<move_data.to_x, move_data.to_y>>)]_vars

(* C19: is_in_check(board, side) and is_in_check_simple(board, side)       *)
(* return the same result for both sides in every reachable position       *)
(* (a position has both kings; without a king both functions raise).       *)
C19_CheckOraclesAgree ==
    \A color \in {COLOR_WHITE, COLOR_BLACK} :
        HasKing(board, pieces, color) =>
            (is_in_check(board, pieces, color) <=> is_in_check_simple(board, pieces, color))

(* The side to move is in check by a pawn, the game goes on, and both      *)
(* functions say so.                                                       *)
C19_Witness ==
    /\ AtRest
    /\ HasKing(board, pieces, turn)
    /\ is_in_check(board, pieces, turn)
    /\ is_in_check_simple(board, pieces, turn)
    /\ \E s \in EnemySquares(board, pieces, turn) :
           /\ pieces[board[s[2]][s[1]]].type = "pawn"
           /\ FindKing(board, pieces, turn) \in PieceMoves(board, pieces, board[s[2]][s[1]])

(***************************************************************************)
(* C20: if the user returns to the menu while an engine computation is in  *)
(* flight, the move the engine later returns is discarded: the thread of   *)
(* that computation calls neither select_piece nor move_piece nor          *)
(* promote_pawn on any Board, a Board created by a later game included.    *)
(* A thread past its select_piece call stands at "move_piece" or           *)
(* "promote_pawn".                                                         *)
(***************************************************************************)
C20_AbandonedComputationIsDiscarded ==
    \A i \in 1..MaxThreads :
        controller.threads[i].abandoned =>
            controller.threads[i].pc \notin {"move_piece", "promote_pawn"}

(***************************************************************************)
(* C21: when the engine fails (get_move raises or returns no move), the    *)
(* computation changes nothing of the Board: neither the step of its       *)
(* thread that issues the request nor the step in which the failure        *)
(* surfaces changes piece placement, side to move, history, repetition     *)
(* map, selection or double-step marker, and the thread then ends.         *)
(***************************************************************************)
Requests(i) ==
    controller.threads[i].pc = "get_move" /\ controller'.threads[i].pc = "engine"

FailureSurfaces(i) ==
    /\ controller.threads[i].pc = "engine"
    /\ controller.threads[i].move = NoMove
    /\ controller'.threads[i].pc # "engine"

C21_EngineFailureLeavesBoard ==
    [][\A i \in 1..MaxThreads :
          /\ Requests(i) \/ FailureSurfaces(i) =>
                UNCHANGED <<board, pieces, turn, history, repeated_positions,
                            selected_piece, last_pawn_moved>>
          /\ FailureSurfaces(i) => controller'.threads[i] = NoThread]_vars

(* The engine failed on its reply to a move of the player: it is still to  *)
(* move, nothing is in flight and no thread is left.                       *)
C21_Witness ==
    /\ controller.state = GAME_STATE_PLAYING
    /\ ~controller.ai_thinking
    /\ \A i \in 1..MaxThreads : controller.threads[i] = NoThread
    /\ history # <<>>
    /\ turn = ai_color(controller)
    /\ ~animating
    /\ selected_piece = None
    /\ ~checkmate

(***************************************************************************)
(* C22: for an en-passant candidate (select_piece's tests up to its call   *)
(* of leaves_king_in_check hold for the pawn), the capture is added to the *)
(* legal-move list exactly when the mover's king is not attacked in the    *)
(* position where the capturing pawn stands on the skipped square and the  *)
(* captured pawn is gone.                                                  *)
(***************************************************************************)
EnPassantCandidate(p) ==
    LET me == pieces[p]
        lpm == last_pawn_moved
        white_pawn_on_fifth == me.color = COLOR_WHITE /\ me.y = 3
        black_pawn_on_fourth == me.color = COLOR_BLACK /\ me.y = 4
    IN  /\ me.type = "pawn"
        /\ lpm # NoSq
        /\ (white_pawn_on_fifth /\ lpm[2] = 3) \/ (black_pawn_on_fourth /\ lpm[2] = 4)
        /\ Abs(me.x - lpm[1]) = 1
        /\ board[lpm[2]][lpm[1]] # None
        /\ pieces[board[lpm[2]][lpm[1]]].type = "pawn"
        /\ pieces[board[lpm[2]][lpm[1]]].color # me.color

SkippedSquare(p) ==
    <<last_pawn_moved[1], pieces[p].y + (IF pieces[p].color = COLOR_WHITE THEN -1 ELSE 1)>>

C22_EnPassantFilterRemovesCapturedPawn ==
    AtRest =>
        \A q \in Squares :
            LET p == board[q[2]][q[1]]
            IN  (p # None /\ pieces[p].color = turn /\ EnPassantCandidate(p)) =>
                    (SkippedSquare(p) \in LegalMoves(board, pieces, last_pawn_moved, p)
                        <=> ~EnPassantExposesKing(q, last_pawn_moved, SkippedSquare(p)))

(***************************************************************************)
(* C23: undo_move called while a promotion is pending puts the pawn back   *)
(* on its origin square, clears promotion_pending, and leaves the turn     *)
(* with the side that moved the pawn.                                      *)
(***************************************************************************)
PromotionAwaited ==
    /\ ~crashed
    /\ ~animating
    /\ undone_in_flight = 0
    /\ promotion_pending
    /\ history # <<>>
    /\ history[Len(history)].piece = pawn_to_promote

C23_UndoOfPendingPromotion ==
    PromotionAwaited =>
        LET e == history[Len(history)]
            s == undo_move(St)
        IN  /\ s.board[e.from[2]][e.from[1]] = pawn_to_promote
            /\ s.pieces[pawn_to_promote].type = "pawn"
            /\ ~s.promotion_pending
            /\ s.turn = pieces[pawn_to_promote].color

(***************************************************************************)
(* C24: promote_pawn re-runs only the checkmate test.  With a promotion    *)
(* pending in a game that is not over, promoting to any of the four kinds  *)
(* makes the game terminal, with the promoting side as winner, exactly     *)
(* when the opponent is checkmated by it; a promotion that stalemates the  *)
(* opponent, leaves insufficient material or repeats a position leaves the *)
(* terminal flag and the winner as they were.                              *)
(***************************************************************************)
PromotionOpen ==
    /\ ~crashed
    /\ ~animating
    /\ ~checkmate
    /\ promotion_pending
    /\ pawn_to_promote # None
    /\ FreeIds(St) # {}

C24_PromotionTestsCheckmateOnly ==
    PromotionOpen =>
        \A k \in PromotionKinds :
            LET s == promote_pawn(St, k)
                mover == pieces[pawn_to_promote].color
            IN  /\ s.ret
                /\ ~s.crashed
                /\ IF is_checkmate(s.board, s.pieces, Other(mover))
                   THEN s.checkmate /\ s.winner = mover
                   ELSE ~s.checkmate /\ s.winner = winner

(* A promotion has just stalemated the opponent and the game goes on.      *)
C24_Witness ==
    /\ ~crashed
    /\ ~animating
    /\ ~promotion_pending
    /\ history # <<>>
    /\ history[Len(history)].promotion \in PromotionKinds
    /\ is_stalemate(board, pieces, turn)
    /\ ~checkmate

(***************************************************************************)
(* C25: every completed move, a pawn move completed by promote_pawn        *)
(* included, records the signature of the position it leads to in its      *)
(* history entry and increments that signature's count in                  *)
(* repeated_positions.  A move is completed by the step that ends its      *)
(* animation without leaving a promotion pending, or by the promote_pawn   *)
(* call that ends the pending promotion.                                   *)
(***************************************************************************)
CompletedByAnimation ==
    animating /\ ~animating' /\ ~promotion_pending' /\ Len(history') = Len(history)

CompletedByPromotion ==
    ~animating /\ promotion_pending /\ ~promotion_pending' /\ Len(history') = Len(history)

C25_CompletedMoveRecordsSignature ==
    [][(undone_in_flight = 0 /\ ~crashed' /\ history # <<>>
            /\ (CompletedByAnimation \/ CompletedByPromotion)) =>
          LET e == history'[Len(history')]
              sig == get_board_signature(board', pieces', turn')
          IN  /\ e.has_signature
              /\ e.signature = sig
              /\ Count(repeated_positions', sig) = Count(repeated_positions, sig) + 1]_vars

(***************************************************************************)
(* C26: undo_move after a completed castling returns the king and the rook *)
(* to their original squares and empties the squares they stood on, with   *)
(* the moved flag False for both, so that the same castling move is again  *)
(* in the king's legal-move list.                                          *)
(***************************************************************************)
Castled ==
    /\ ~crashed
    /\ ~animating
    /\ undone_in_flight = 0
    /\ history # <<>>
    /\ history[Len(history)].castling
    /\ history[Len(history)].has_signature

C26_UndoOfCastling ==
    Castled =>
        LET e == history[Len(history)]
            s == undo_move(St)
        IN  /\ s.board[e.from[2]][e.from[1]] = e.piece
            /\ s.board[e.rook_from[2]][e.rook_from[1]] = e.rook
            /\ s.board[e.to[2]][e.to[1]] = None
            /\ s.board[e.rook_to[2]][e.rook_to[1]] = None
            /\ <<s.pieces[e.piece].x, s.pieces[e.piece].y>> = e.from
            /\ <<s.pieces[e.rook].x, s.pieces[e.rook].y>> = e.rook_from
            /\ ~s.pieces[e.piece].moved
            /\ ~s.pieces[e.rook].moved
            /\ s.turn = s.pieces[e.piece].color
            /\ e.to \in LegalMoves(s.board, s.pieces, s.last_pawn_moved, e.piece)

(* The castling of line 6 has been taken back: king and rook stand on e1   *)
(* and h1 again after a history of eight moves that once held nine.        *)
C26_Witness ==
    /\ line = 6
    /\ ~crashed
    /\ ~animating
    /\ Len(history) = 8
    /\ turn = COLOR_WHITE
    /\ board[7][4] # None
    /\ pieces[board[7][4]].type = "king"
    /\ board[7][7] # None
    /\ pieces[board[7][7]].type = "rook"
    /\ board[7][5] = None
    /\ board[7][6] = None
    /\ Count(repeated_positions, get_board_signature(board, pieces, COLOR_WHITE)) = 1
    /\ pieces[board[6][4]].color = COLOR_BLACK
    /\ last_pawn_moved = NoSq

(***************************************************************************)
(* C27: undo_move of a completed promotion, with or without a capture on   *)
(* the promotion square, puts a pawn of the same side back on the origin   *)
(* square, restores what stood on the promotion square, leaves every other *)
(* square alone, and returns white_material and the turn to their values   *)
(* before the pawn move.  Stated for every position in which a pawn of the *)
(* side to move is selected and every move of its list onto the last rank: *)
(* the move is completed, promoted to each kind, and undone.               *)
(***************************************************************************)
PromotingMoves ==
    IF Selected /\ pieces[selected_piece].type = "pawn" /\ Cardinality(FreeIds(St)) >= 2
    THEN {m \in valid_moves : m[2] \in {0, 7}}
    ELSE {}

C27_UndoOfCompletedPromotion ==
    \A m \in PromotingMoves :
        \A k \in PromotionKinds :
            LET from == <<pieces[selected_piece].x, pieces[selected_piece].y>>
                promoted == promote_pawn(Executed(St, m), k)
                s == undo_move(promoted)
                pawn == s.board[from[2]][from[1]]
            IN  /\ promoted.ret
                /\ promoted.board[m[2]][m[1]] # None
                /\ promoted.pieces[promoted.board[m[2]][m[1]]].type = k
                /\ s.ret
                /\ pawn # None
                /\ s.pieces[pawn].type = "pawn"
                /\ s.pieces[pawn].color = turn
                /\ <<s.pieces[pawn].x, s.pieces[pawn].y>> = from
                /\ s.board[m[2]][m[1]] = board[m[2]][m[1]]
                /\ \A q \in Squares \ {from, m} : s.board[q[2]][q[1]] = board[q[2]][q[1]]
                /\ s.white_material = white_material
                /\ s.turn = turn
                /\ ~s.promotion_pending

(* A completed promotion has been undone: the pawn standing on its seventh *)
(* rank is an object created after the game began, as undo_move creates    *)
(* it, and its side is to move.                                            *)
C27_Witness ==
    /\ ~crashed
    /\ ~animating
    /\ ~promotion_pending
    /\ \E q \in Squares :
        /\ board[q[2]][q[1]] > 32
        /\ pieces[board[q[2]][q[1]]].type = "pawn"
        /\ pieces[board[q[2]][q[1]]].color = turn
        /\ q[2] = (IF turn = COLOR_WHITE THEN 1 ELSE 6)

(* AIController.board_to_fen, en-passant field: file letter and rank digit *)
(* of the target square, or NoSq for '-'.  last_pawn_double_move is the    *)
(* Board's last_pawn_moved, as ai_turn passes it.                          *)
FileLetters == <<"a", "b", "c", "d", "e", "f", "g", "h">>

en_passant_field(color, last_pawn_double_move) ==
    IF last_pawn_double_move # NoSq
    THEN LET x == last_pawn_double_move[1]
             y == last_pawn_double_move[2]
         IN  IF (color = COLOR_WHITE /\ y = 3) \/ (color = COLOR_BLACK /\ y = 4)
             THEN <<FileLetters[x + 1], IF color = COLOR_WHITE THEN 6 ELSE 3>>
             ELSE NoSq
    ELSE NoSq

(* The square a pawn going from row from_y to row to_y of column x passes  *)
(* over, in algebraic notation (row 0 is rank 8).                          *)
SkippedAlgebraic(x, from_y, to_y) == <<FileLetters[x + 1], 8 - ((from_y + to_y) \div 2)>>

(* C28: in the position after a completed move the en-passant field of the *)
(* exported position string names a square only if that move was a pawn    *)
(* double-step, and then it names the square the pawn skipped; after any   *)
(* other move it is '-'.                                                   *)
C28_EnPassantFieldFollowsDoubleStep ==
    [][(Applies /\ undone_in_flight = 0) =>
          LET field == en_passant_field(turn', last_pawn_moved')
          IN  IF DoubleStepInFlight
              THEN field = SkippedAlgebraic(move_data.to_x, move_data.from_y, move_data.to_y)
              ELSE field = NoSq]_vars

(* C29: while an accepted move is in flight, no step other than the one    *)
(* that applies it changes piece placement, history or side to move, every *)
(* further move_piece call is rejected, and the step that applies the move *)
(* puts the moved piece on its destination square.                         *)
C29_MoveInFlightIsIsolated ==
    [][(animating /\ ~crashed) =>
          /\ \A q \in Squares : ~move_piece(St, q[1], q[2]).ret
          /\ animating' => (board' = board /\ history' = history /\ turn' = turn)
          /\ Applies => board'[move_data.to_y][move_data.to_x] = move_data.piece]_vars

(* The pieces of one colour standing on the grid.                          *)
PiecesOnBoard(bd, ps, color) ==
    {bd[q[2]][q[1]] : q \in {c \in Squares : /\ bd[c[2]][c[1]] # None
                                             /\ ps[bd[c[2]][c[1]]].color = color}}

RECURSIVE SumOfValues(_, _)
SumOfValues(ps, ids) ==
    IF ids = {}
    THEN 0
    ELSE LET i == CHOOSE j \in ids : TRUE
         IN  PIECE_VALUE[ps[i].type] + SumOfValues(ps, ids \ {i})

MaterialBalance(bd, ps) ==
    SumOfValues(ps, PiecesOnBoard(bd, ps, COLOR_WHITE))
        - SumOfValues(ps, PiecesOnBoard(bd, ps, COLOR_BLACK))

(* C30: in every reachable state white_material is the sum of the values   *)
(* of the white pieces on the board minus the sum of the values of the     *)
(* black pieces on the board.                                              *)
C30_MaterialTallyIsBalance ==
    white_material = MaterialBalance(board, pieces)

(* The pieces of the side to move for which select_piece caches a          *)
(* non-empty legal-move list.                                              *)
MovablePieces ==
    {board[q[2]][q[1]] : q \in {c \in OwnSquares(board, pieces, turn) :
        LegalMoves(board, pieces, last_pawn_moved, board[c[2]][c[1]]) # {}}}

(* C31: in every reachable state that is not terminal, has no promotion    *)
(* pending and no move in flight, some piece of the side to move has a     *)
(* non-empty legal-move list.                                              *)
C31_SideToMoveCanMove ==
    (AtRest /\ HasKing(board, pieces, turn)) => MovablePieces # {}

(* The step asks the human player for a promotion choice: the controller   *)
(* opens the promotion menu.                                               *)
ChoiceRequested ==
    /\ controller.state # GAME_STATE_CORONATION
    /\ controller'.state = GAME_STATE_CORONATION

(* Thread i holds a move of the engine that names a promotion kind, and    *)
(* move_piece has accepted it: it is in flight, or applied with the        *)
(* promotion pending.                                                      *)
EngineMoved(i) ==
    /\ Thread(i).pc = "promote_pawn"
    /\ Thread(i).promotion # "none"
    /\ \/ /\ animating
          /\ <<move_data.from_x, move_data.from_y, move_data.to_x, move_data.to_y>> = Thread(i).move
       \/ /\ promotion_pending
          /\ <<pieces[pawn_to_promote].x, pieces[pawn_to_promote].y>>
                 = <<Thread(i).move[3], Thread(i).move[4]>>

(* A piece of the given kind stands on the destination of move m, no       *)
(* promotion is pending and the turn has passed to the other side.         *)
Promoted(bd, ps, pending, side, m, kind) ==
    /\ bd[m[4]][m[3]] # None
    /\ ps[bd[m[4]][m[3]]].type = kind
    /\ ~pending
    /\ side # ps[bd[m[4]][m[3]]].color

(* C32: when ai_turn ends after making a pawn move to the farthest rank    *)
(* for which the engine named promotion kind k, a piece of kind k stands   *)
(* on the destination square and the turn has passed to the other side;    *)
(* and the promotion menu opens only for a pawn of the human player's      *)
(* side.                                                                   *)
C32_EnginePromotionNeedsNoChoice ==
    [][/\ \A i \in 1..MaxThreads :
             (EngineMoved(i) /\ Thread(i)' = NoThread) =>
                 Promoted(board', pieces', promotion_pending', turn',
                          Thread(i).move, Thread(i).promotion)
       /\ ChoiceRequested =>
             /\ pawn_to_promote' # None
             /\ pieces'[pawn_to_promote'].color = player_color(controller')]_vars

(* The ai_turn threads that have been started and have not ended.          *)
Outstanding == {i \in 1..MaxThreads : Thread(i).pc # "none"}

(* C33: at most one ai_turn thread is outstanding at any time, over every  *)
(* sequence of start_game, return_to_menu and update calls.                *)
C33_AtMostOneComputation ==
    Cardinality(Outstanding) <= 1

(* The game of line 11, and the Board after each of its plies: every move  *)
(* selected, made and completed on the Board the ply before left.          *)
ReferenceGame == Lines[11]

PlayedOn(s, m) == Executed(select_piece(s, m[1], m[2]), <<m[3], m[4]>>)

RECURSIVE PositionsAfter(_)
PositionsAfter(k) ==
    IF k = 0
    THEN <<NewBoard>>
    ELSE CHOOSE r \in {Append(p, PlayedOn(p[Len(p)], CHOOSE m \in ReferenceGame[k] : TRUE)) :
                       p \in {PositionsAfter(k - 1)}} : TRUE

ReferencePositions == PositionsAfter(Len(ReferenceGame))

(* Two positions with the same side to move and, on every square, a piece  *)
(* of the same side and kind or no piece.                                  *)
SamePosition(bd1, ps1, turn1, bd2, ps2, turn2) ==
    /\ turn1 = turn2
    /\ \A q \in Squares :
          LET p1 == bd1[q[2]][q[1]]
              p2 == bd2[q[2]][q[1]]
          IN  IF p1 = None \/ p2 = None
              THEN p1 = None /\ p2 = None
              ELSE ps1[p1].color = ps2[p2].color /\ ps1[p1].type = ps2[p2].type

(* C34: get_board_signature gives different signatures to two positions    *)
(* that differ in the side or kind of the piece on some square or in the   *)
(* side to move: while the reference game is played, the Board's position  *)
(* has the signature of a position of that game only if it is that         *)
(* position.                                                               *)
C34_SignatureTellsPositionsApart ==
    line = 11 =>
        \A positions \in {ReferencePositions} :
            \A k \in 1..Len(positions) :
                \A p \in {positions[k]} :
                    get_board_signature(board, pieces, turn)
                            = get_board_signature(p.board, p.pieces, p.turn)
                        => SamePosition(board, pieces, turn, p.board, p.pieces, p.turn)

====
